---------------------------- MODULE Spec2Model ----------------------------
(***************************************************************************)
(* A model of the XDPoS v1 consensus engine                                *)
(* (consensus/XDPoS/engines/engine_v1/engine.go): the leader schedule      *)
(* (YourTurn, calcDifficulty), the snapshot store (snapshot,               *)
(* UpdateMasternodes) and seal verification (verifySeal, GetValidator).    *)
(*                                                                         *)
(* Addresses are strings; a header's seal is modelled by the address it    *)
(* recovers to (ecrecover), a list index is 0-based as in the Go source    *)
(* (position returns -1 for "not found").                                  *)
(***************************************************************************)
EXTENDS Integers, Sequences, FiniteSets, TLC

VARIABLES
    tIn,        \* leader schedule: the inputs of YourTurn/calcDifficulty
    tOut,       \* leader schedule: per signer, what YourTurn/calcDifficulty returned
    env,        \* the deployment: c.config, the genesis block, the hooks' answers and the
                \* block producers, fixed when the engine is constructed
    chain,      \* the ChainReader's canonical chain: chain[n + 1] is the header of block n
    recents,    \* c.recents: the in-memory snapshots, by block hash
    db,         \* c.db: the persisted snapshots, by block hash
    nUpdates,   \* UpdateMasternodes calls so far
    timeoutDuration,  \* countdown: the duration NewCountDown was given, in ticks
    initilised, \* countdown: what isInitilised() answers
    pending,    \* countdown: the ticks left of every scheduled firing
    lastCtl,    \* countdown: the last of NewCountDown, Reset and StopTimer
    sinceCtl,   \* countdown: the ticks passed since lastCtl
    calls,      \* countdown: the OnTimeoutFn invocations since lastCtl
    cancelled,  \* countdown: lastCtl found a firing scheduled
    resetBit,   \* countdown: flips at every Reset
    c_signer,   \* c.signer: the address Authorize injected
    c_signFn,   \* c.signFn: the signing function Authorize injected
    stop,       \* Seal: the stop channel is closed
    seal,       \* Seal: where the call stands, what it was given and what it returned
    verifiedHeaders,  \* c.verifiedHeaders: the hashes of the headers found valid
    abort,      \* VerifyHeaders: the abort channel is closed
    results,    \* VerifyHeaders: what was sent on the results channel, in order
    verifier,   \* VerifyHeaders: the goroutine, its arguments and where it stands
    lock,       \* c.lock: the goroutine that holds it for writing, those that hold it
                \* for reading
    threads,    \* the goroutines that call the engine: the method each runs, its
                \* next instruction and what it has read
    engineV2,   \* the v2 engine x: currentRound, highestQuorumCert, lockQuorumCert,
                \* highestTimeoutCert, highestVotedRound, highestCommitBlock
    votePool,   \* x.votePool: the votes held, by pool key
    timeoutPool,  \* x.timeoutPool: the timeouts held, by pool key
    sent,       \* the rounds the v2 engine has emitted votes in
    reached,    \* the pool keys add has reported the threshold of, and how often
    nFakes      \* calls of the v2 engine's testing tools so far

turnVars == <<tIn, tOut>>
engineVars == <<env, chain, recents, db, nUpdates>>
cdVars == <<timeoutDuration, initilised, pending, lastCtl, sinceCtl, calls, cancelled,
            resetBit>>
signerVars == <<c_signer, c_signFn>>
sealVars == <<stop, seal>>
batchVars == <<verifiedHeaders, abort, results, verifier>>
lockVars == <<lock, threads>>
v2Vars == <<engineV2, votePool, timeoutPool, sent, reached, nFakes>>
nodeVars == <<signerVars, sealVars, batchVars, lockVars, v2Vars>>
besideSeal == <<turnVars, cdVars, batchVars, lockVars, v2Vars>>
besideBatch == <<turnVars, cdVars, signerVars, sealVars, lockVars, v2Vars>>
besideLock == <<turnVars, cdVars, engineVars, sealVars, batchVars, v2Vars>>
besideV2 == <<turnVars, cdVars, engineVars, signerVars, sealVars, batchVars, lockVars>>
vars == <<tIn, tOut, env, chain, recents, db, nUpdates, timeoutDuration, initilised,
          pending, lastCtl, sinceCtl, calls, cancelled, resetBit, c_signer, c_signFn, stop,
          seal, verifiedHeaders, abort, results, verifier, lock, threads, engineV2,
          votePool,
          timeoutPool, sent, reached, nFakes>>

-----------------------------------------------------------------------------
(* Addresses *)

Addr == {"A", "B", "C", "D"}

\* the addresses in ascending order (SnapshotV1.GetSigners sorts)
AddrOrder == <<"A", "B", "C", "D", "E", "F">>
AllAddr == {"A", "B", "C", "D", "E", "F"}

\* common.Address{}: the zero address
ZeroAddr == "0"

\* longest masternode list the leader-schedule inputs are drawn from
MaxMN == 3

Range(s) == {s[i] : i \in 1..Len(s)}

\* the duplicate-free lists over S of length lo..hi: a checkpoint's signer
\* list is the key set of the snapshot's Signers map
InjSeqs(S, lo, hi) ==
    UNION {{s \in [1..n -> S] : \A i, j \in 1..n : i # j => s[i] # s[j]} : n \in lo..hi}

-----------------------------------------------------------------------------
(* Leader schedule *)

\* position(list, x): 0-based index of the first x in list, -1 when absent
position(list, x) ==
    IF \E i \in 1..Len(list) : list[i] = x
    THEN (CHOOSE i \in 1..Len(list) : list[i] = x /\ \A j \in 1..(i - 1) : list[j] # x) - 1
    ELSE -1

\* utils.Hop(len, pre, cur): the forward distance, modulo the set size, from
\* the slot after pre to cur
Hop(len, pre, cur) == (cur - (pre + 1)) % len

\* YourTurn without the wrap-around of the turn test
YourTurnNoWrap(masternodes, snapOk, parentNumber, pre, signer) ==
    IF ~snapOk THEN [len |-> 0, preIndex |-> -1, curIndex |-> -1, turn |-> FALSE, err |-> "snapshot"]
    ELSE IF Len(masternodes) = 0
    THEN [len |-> 0, preIndex |-> -1, curIndex |-> -1, turn |-> FALSE, err |-> "Masternodes not found"]
    ELSE IF parentNumber # 0 /\ pre = "err"
    THEN [len |-> 0, preIndex |-> 0, curIndex |-> 0, turn |-> FALSE, err |-> "ecrecover"]
    ELSE LET preIndex == IF parentNumber # 0 THEN position(masternodes, pre) ELSE -1
             curIndex == position(masternodes, signer)
         IN  [len |-> Len(masternodes), preIndex |-> preIndex, curIndex |-> curIndex,
              turn |-> (preIndex + 1 = curIndex), err |-> "nil"]

\* YourTurn(chain, parent, signer) on what it reads: the masternode list of
\* the parent's epoch, whether the parent's snapshot resolves, the parent's
\* number and the creator recovered from the parent ("err": ecrecover fails).
\* Returns (len, preIndex, curIndex, turn, err).
YourTurn(masternodes, snapOk, parentNumber, pre, signer) ==
    IF ~snapOk THEN [len |-> 0, preIndex |-> -1, curIndex |-> -1, turn |-> FALSE, err |-> "snapshot"]
    ELSE IF Len(masternodes) = 0
    THEN [len |-> 0, preIndex |-> -1, curIndex |-> -1, turn |-> FALSE, err |-> "Masternodes not found"]
    ELSE IF parentNumber # 0 /\ pre = "err"
    THEN [len |-> 0, preIndex |-> 0, curIndex |-> 0, turn |-> FALSE, err |-> "ecrecover"]
    ELSE LET preIndex == IF parentNumber # 0 THEN position(masternodes, pre) ELSE -1
             curIndex == position(masternodes, signer)
         IN  [len |-> Len(masternodes), preIndex |-> preIndex, curIndex |-> curIndex,
              turn |-> ((preIndex + 1) % Len(masternodes) = curIndex), err |-> "nil"]

\* calcDifficulty with the hop counted from the parent's slot, not the slot after it
calcDifficultyFromPre(masternodes, snapOk, parentNumber, pre, signer) ==
    LET r == YourTurn(masternodes, snapOk, parentNumber, pre, signer)
    IN  IF r.err # "nil" THEN r.len + r.curIndex - r.preIndex
        ELSE r.len - Hop(r.len, r.preIndex - 1, r.curIndex)

\* calcDifficulty(chain, parent, signer)
calcDifficulty(masternodes, snapOk, parentNumber, pre, signer) ==
    LET r == YourTurn(masternodes, snapOk, parentNumber, pre, signer)
    IN  IF r.err # "nil" THEN r.len + r.curIndex - r.preIndex
        ELSE r.len - Hop(r.len, r.preIndex, r.curIndex)

\* Go's remainder: the result takes the sign of the dividend
GoRem(a, n) == IF a < 0 THEN -((-a) % n) ELSE a % n

\* the three masternodes that CheckMNTurn takes on the XDC testnet in place of
\* the list of the parent's epoch
TestnetMasternodes == <<"C", "D", "E">>

\* CheckMNTurn(chain, parent, signer), on the inputs of YourTurn and
\* common.IsTestnet
CheckMNTurn(isTestnet, mns, snapOk, parentNumber, pre, signer) ==
    LET masternodes == IF isTestnet THEN TestnetMasternodes ELSE mns
    IN  IF ~snapOk THEN FALSE
        ELSE IF Len(masternodes) = 0 THEN FALSE
        ELSE IF parentNumber # 0 /\ pre = "err" THEN FALSE
        ELSE LET preIndex == IF parentNumber # 0 THEN position(masternodes, pre) ELSE -1
                 curIndex == position(masternodes, signer)
             IN  GoRem(preIndex, Len(masternodes)) = curIndex

\* the inputs of one evaluation of the leader schedule
TurnInputs ==
    [masternodes : InjSeqs(Addr, 0, MaxMN),
     snapOk : BOOLEAN,
     parentNumber : {0, 1},
     pre : Addr \cup {"err"}]

\* the engine part of the state while only the leader schedule is evaluated
EngineIdle ==
    /\ env = [Epoch |-> 1, Gap |-> 0]
    /\ chain = <<>>
    /\ recents = <<>>
    /\ db = <<>>
    /\ nUpdates = 0

\* NewCountDown(duration): nothing is scheduled before the first Reset
NewCountDown(duration) ==
    /\ timeoutDuration = duration
    /\ initilised = FALSE
    /\ pending = {}
    /\ lastCtl = "NewCountDown"
    /\ sinceCtl = 0
    /\ calls = 0
    /\ cancelled = FALSE
    /\ resetBit = FALSE

\* the countdown part of the state while no countdown is modelled
CountdownIdle == NewCountDown(1)

\* New(): no signer is authorized
NoSigner ==
    /\ c_signer = ZeroAddr
    /\ c_signFn = "nil"

\* no Seal call is under way
SealIdle ==
    /\ stop = FALSE
    /\ seal = [pc |-> "idle"]

\* no VerifyHeaders call is under way and no header was verified
BatchIdle ==
    /\ verifiedHeaders = {}
    /\ abort = FALSE
    /\ results = <<>>
    /\ verifier = [pc |-> "idle"]

\* the goroutines that call the engine
Threads == {"t1", "t2"}

\* c.lock is free and no goroutine is inside the engine
LockIdle ==
    /\ lock = [writer |-> "none", readers |-> {}]
    /\ threads = [t \in Threads |-> [op |-> "none", pc |-> 1]]

\* the v1 engine's side of the state
V1Idle ==
    /\ NoSigner
    /\ SealIdle
    /\ BatchIdle
    /\ LockIdle

\* the genesis block of the v2 chain: a block is the list of the rounds of
\* its ancestors and itself
GenesisBlock == <<>>

\* a v2 engine at its first round with empty pools
V2Idle ==
    /\ engineV2 = [currentRound |-> 1, highestQuorumCert |-> GenesisBlock,
                   lockQuorumCert |-> GenesisBlock, highestTimeoutCert |-> 0,
                   highestVotedRound |-> 0, highestCommitBlock |-> GenesisBlock]
    /\ votePool = {}
    /\ timeoutPool = {}
    /\ sent = {}
    /\ reached = {}
    /\ nFakes = 0

\* the node around the engine while it is not modelled
NodeIdle ==
    /\ V1Idle
    /\ V2Idle

TurnInit ==
    /\ tIn \in TurnInputs
    /\ tOut = <<>>
    /\ EngineIdle
    /\ CountdownIdle
    /\ NodeIdle

\* the engine answers YourTurn, calcDifficulty and CheckMNTurn (off and on the
\* testnet) for every candidate signer
TurnCompute ==
    /\ tOut = <<>>
    /\ tOut' = [s \in Addr |->
                  [yt |-> YourTurn(tIn.masternodes, tIn.snapOk, tIn.parentNumber, tIn.pre, s),
                   difficulty |-> calcDifficulty(tIn.masternodes, tIn.snapOk, tIn.parentNumber, tIn.pre, s),
                   mn |-> [isTestnet \in BOOLEAN |->
                             CheckMNTurn(isTestnet, tIn.masternodes, tIn.snapOk,
                                         tIn.parentNumber, tIn.pre, s)]]]
    /\ UNCHANGED tIn
    /\ UNCHANGED engineVars
    /\ UNCHANGED cdVars
    /\ UNCHANGED nodeVars

TurnStep == TurnCompute

SpecTurn == TurnInit /\ [][TurnStep]_vars

TurnDone == tOut # <<>>
TurnOk == TurnDone /\ \A s \in Addr : tOut[s].yt.err = "nil"
OnTurn == {s \in Addr : tOut[s].yt.turn}

-----------------------------------------------------------------------------
(* Claims about the leader schedule *)

\* C1: whenever YourTurn answers without an error for a parent and its
\* masternode list M, exactly one member of M is reported to be on turn.
C1_TurnUnique ==
    TurnOk => Cardinality(OnTurn \cap Range(tIn.masternodes)) = 1

\* C1 witness: a list of three masternodes whose last member created the
\* parent, so that the turn wraps around to the first member.
C1_Witness ==
    /\ TurnOk
    /\ Len(tIn.masternodes) = 3
    /\ tIn.parentNumber = 1
    /\ tIn.pre = tIn.masternodes[3]
    /\ tOut[tIn.masternodes[1]].yt.turn

\* C2 (as claimed): the on-turn signer's difficulty is strictly greater than
\* the difficulty of every other signer, member of the list or not.
C2_DifficultyOrdering ==
    TurnOk => \A s \in OnTurn : \A o \in Addr \ OnTurn :
                  tOut[s].difficulty > tOut[o].difficulty

\* the ordering restricted to the members of the masternode list
DifficultyOrderingAmongMembers ==
    TurnOk => \A s \in OnTurn : \A o \in Range(tIn.masternodes) \ OnTurn :
                  tOut[s].difficulty > tOut[o].difficulty

\* scenario S1: M = [A, B, C], the parent is block 1 and was created by A
S1 ==
    /\ TurnOk
    /\ tIn.masternodes = <<"A", "B", "C">>
    /\ tIn.parentNumber = 1
    /\ tIn.pre = "A"

\* C3 (as claimed): in S1 it is B's turn only, with difficulties B = 3,
\* A = 2, C = 1.
C3_S1_AsClaimed ==
    S1 => /\ tOut["B"].yt.turn /\ ~tOut["A"].yt.turn /\ ~tOut["C"].yt.turn
          /\ tOut["B"].difficulty = 3
          /\ tOut["A"].difficulty = 2
          /\ tOut["C"].difficulty = 1

\* C3 (amended): in S1 it is B's turn only, with difficulties B = 3, C = 2
\* (one hop after the on-turn slot) and A = 1 (two hops after it).
C3_S1 ==
    S1 => /\ tOut["B"].yt.turn /\ ~tOut["A"].yt.turn /\ ~tOut["C"].yt.turn
          /\ tOut["B"].difficulty = 3
          /\ tOut["C"].difficulty = 2
          /\ tOut["A"].difficulty = 1

\* C3 witness: scenario S1 has been evaluated
C3_Witness == S1 /\ tOut["B"].difficulty = 3

-----------------------------------------------------------------------------
(* Headers *)

\* highest block number the chain grows to
MaxNumber == 3

NonceAuthVote == "auth"
NonceDropVote == "drop"

\* header.Validator when it holds no signature
NoValidator == "none"

\* common.AddressLength: the bytes of an address
AddressLength == 20

\* utils.ExtraVanity, utils.ExtraSeal: the bytes of header.Extra before and
\* after the signer list
ExtraVanity == 32
ExtraSeal == 65

\* header.MixDigest is common.Hash{}, or some other digest
ZeroHash == "0x0"
OtherHash == "0x1"

\* utils.UncleHash: the hash of an empty list of uncles
UncleHash == "CalcUncleHash(nil)"

\* len(header.Extra) of a header that carries the addresses of list and rem
\* bytes more between vanity and seal
ExtraLen(list, rem) == ExtraVanity + AddressLength * Len(list) + rem + ExtraSeal

\* header.Hash(): a digest of the header's fields
Hash(h) ==
    <<h.number, h.parentHash, h.creator, h.coinbase, h.nonce, h.difficulty, h.extraSigners,
      h.validator, h.validators, h.penalties, h.time, h.extraLen, h.mixDigest,
      h.uncleHash>>

\* chain.GetHeaderByNumber(n) exists
HasNumber(ch, n) == n >= 0 /\ n + 1 <= Len(ch)

\* chain.GetHeader(hash, number) exists
HasHeader(ch, hash, number) == HasNumber(ch, number) /\ Hash(ch[number + 1]) = hash

\* GetMasternodesFromCheckpointHeader: the addresses between vanity and seal
MasternodesFromCheckpointHeader(h) == h.extraSigners

\* GetMasternodes(chain, header): the list in the checkpoint header of the
\* header's epoch, the header itself if it is a checkpoint; empty when the
\* checkpoint header is not in the chain
GetMasternodes(ch, e, h) ==
    LET n == h.number
    IN  IF n % e.Epoch = 0 THEN MasternodesFromCheckpointHeader(h)
        ELSE IF HasNumber(ch, n - (n % e.Epoch))
             THEN MasternodesFromCheckpointHeader(ch[n - (n % e.Epoch) + 1])
             ELSE <<>>

-----------------------------------------------------------------------------
(* Snapshots *)

\* newSnapshot(config, sigcache, number, hash, signers)
newSnapshot(number, hash, signers) ==
    [number |-> number, hash |-> hash, signers |-> Range(signers),
     recents |-> <<>>, votes |-> {}]

\* SnapshotV1.GetSigners(): the signers in ascending order
GetSigners(snap) == SelectSeq(AddrOrder, LAMBDA a : a \in snap.signers)

\* the value v under the name F gives it: v is computed once
Let(v, F(_)) == F(v)

\* a function restricted to the keys that satisfy Keep
Restrict(f, Keep(_)) == [k \in {x \in DOMAIN f : Keep(x)} |-> f[k]]

\* the recents entries not older than number - |signers|/2
EvictRecents(rec, number, signers) ==
    Restrict(rec, LAMBDA seen : seen >= number - (Cardinality(signers) \div 2))

\* SnapshotV1.validVote(address, authorize)
validVote(snap, address, authorize) ==
    (authorize /\ address \notin snap.signers) \/ (~authorize /\ address \in snap.signers)

\* the tally of one header of SnapshotV1.apply: with rec and votes as the
\* header's signature and vote leave them, the vote flips the membership of
\* coinbase when its tally exceeds |signers|/2
tallyVote(snap, h, rec, votes) ==
    LET passed == Cardinality({v \in votes : v.address = h.coinbase})
                      > Cardinality(snap.signers) \div 2
        adds == passed /\ h.coinbase \notin snap.signers
        drops == passed /\ h.coinbase \in snap.signers
    IN  [number |-> h.number, hash |-> Hash(h),
         signers |-> IF adds THEN snap.signers \cup {h.coinbase}
                     ELSE IF drops THEN snap.signers \ {h.coinbase}
                     ELSE snap.signers,
         recents |-> IF drops THEN EvictRecents(rec, h.number, snap.signers \ {h.coinbase})
                     ELSE rec,
         votes |-> {v \in votes : /\ drops => v.signer # h.coinbase
                                  /\ passed => v.address # h.coinbase}]

\* one header of SnapshotV1.apply: a checkpoint header clears the votes of
\* the epoch that ended, the recents are updated, the creator's earlier vote
\* on coinbase is uncast and the vote in coinbase + nonce is cast
applyHeader(e, snap, h) ==
    tallyVote(snap, h,
        (h.number :> h.creator) @@ EvictRecents(snap.recents, h.number, snap.signers),
        {v \in (IF h.number % e.Epoch = 0 THEN {} ELSE snap.votes) :
              ~(v.signer = h.creator /\ v.address = h.coinbase)}
          \cup (IF validVote(snap, h.coinbase, h.nonce = NonceAuthVote)
                THEN {[signer |-> h.creator, address |-> h.coinbase,
                       authorize |-> h.nonce = NonceAuthVote]}
                ELSE {}))

\* SnapshotV1.apply(headers): the headers, oldest first, on a copy of snap
RECURSIVE apply(_, _, _)
apply(e, snap, headers) ==
    IF Len(headers) = 0 THEN [err |-> "nil", snap |-> snap]
    ELSE IF headers[1].nonce \notin {NonceAuthVote, NonceDropVote}
    THEN [err |-> "InvalidVote", snap |-> snap]
    ELSE apply(e, applyHeader(e, snap, headers[1]), Tail(headers))

Reverse(s) == [i \in 1..Len(s) |-> s[Len(s) + 1 - i]]

\* a map with one more entry (lru Add, db put)
Put(m, k, v) == (k :> v) @@ m

\* the standalone checks without the one on the time
verifyStandaloneNoFuture(e, h, fullVerify, now) ==
    LET full == fullVerify /\ ~e.IsTestnet
        checkpoint == h.number % e.Epoch = 0
        signersBytes == h.extraLen - ExtraVanity - ExtraSeal
    IN  IF full /\ h.number > e.Epoch /\ h.validator = NoValidator THEN "NoValidatorSignature"
        ELSE IF checkpoint /\ h.coinbase # ZeroAddr THEN "InvalidCheckpointBeneficiary"
        ELSE IF h.nonce \notin {NonceAuthVote, NonceDropVote} THEN "InvalidVote"
        ELSE IF checkpoint /\ h.nonce # NonceDropVote THEN "InvalidCheckpointVote"
        ELSE IF h.extraLen < ExtraVanity THEN "MissingVanity"
        ELSE IF h.extraLen < ExtraVanity + ExtraSeal THEN "MissingSignature"
        ELSE IF ~checkpoint /\ signersBytes # 0 THEN "ExtraSigners"
        ELSE IF checkpoint /\ signersBytes % AddressLength # 0 THEN "InvalidCheckpointSigners"
        ELSE IF h.mixDigest # ZeroHash THEN "InvalidMixDigest"
        ELSE IF h.uncleHash # UncleHash THEN "InvalidUncleHash"
        ELSE "nil"

\* the standalone checks without those on the mix digest and the uncle hash
verifyStandaloneNoDigests(e, h, fullVerify, now) ==
    LET full == fullVerify /\ ~e.IsTestnet
        checkpoint == h.number % e.Epoch = 0
        signersBytes == h.extraLen - ExtraVanity - ExtraSeal
    IN  IF full /\ h.number > e.Epoch /\ h.validator = NoValidator THEN "NoValidatorSignature"
        ELSE IF full /\ h.time > now THEN "FutureBlock"
        ELSE IF checkpoint /\ h.coinbase # ZeroAddr THEN "InvalidCheckpointBeneficiary"
        ELSE IF h.nonce \notin {NonceAuthVote, NonceDropVote} THEN "InvalidVote"
        ELSE IF checkpoint /\ h.nonce # NonceDropVote THEN "InvalidCheckpointVote"
        ELSE IF h.extraLen < ExtraVanity THEN "MissingVanity"
        ELSE IF h.extraLen < ExtraVanity + ExtraSeal THEN "MissingSignature"
        ELSE IF ~checkpoint /\ signersBytes # 0 THEN "ExtraSigners"
        ELSE IF checkpoint /\ signersBytes % AddressLength # 0 THEN "InvalidCheckpointSigners"
        ELSE "nil"

\* the checks of verifyHeader that read the header alone, with the clock at
\* now (the fork hashes are not modelled)
verifyStandalone(e, h, fullVerify, now) ==
    LET full == fullVerify /\ ~e.IsTestnet
        checkpoint == h.number % e.Epoch = 0
        signersBytes == h.extraLen - ExtraVanity - ExtraSeal
    IN  IF full /\ h.number > e.Epoch /\ h.validator = NoValidator THEN "NoValidatorSignature"
        ELSE IF full /\ h.time > now THEN "FutureBlock"
        ELSE IF checkpoint /\ h.coinbase # ZeroAddr THEN "InvalidCheckpointBeneficiary"
        ELSE IF h.nonce \notin {NonceAuthVote, NonceDropVote} THEN "InvalidVote"
        ELSE IF checkpoint /\ h.nonce # NonceDropVote THEN "InvalidCheckpointVote"
        ELSE IF h.extraLen < ExtraVanity THEN "MissingVanity"
        ELSE IF h.extraLen < ExtraVanity + ExtraSeal THEN "MissingSignature"
        ELSE IF ~checkpoint /\ signersBytes # 0 THEN "ExtraSigners"
        ELSE IF checkpoint /\ signersBytes % AddressLength # 0 THEN "InvalidCheckpointSigners"
        ELSE IF h.mixDigest # ZeroHash THEN "InvalidMixDigest"
        ELSE IF h.uncleHash # UncleHash THEN "InvalidUncleHash"
        ELSE "nil"

\* the loop of snapshot() with the disk asked before the memory
RECURSIVE walkDiskFirst(_, _, _, _, _, _, _, _)
walkDiskFirst(ch, e, rec, d, number, hash, parents, headers) ==
    IF (number + e.Gap) % e.Epoch = 0 /\ hash \in DOMAIN d
    THEN [err |-> "nil", base |-> d[hash], headers |-> headers, db |-> d]
    ELSE IF hash \in DOMAIN rec
    THEN [err |-> "nil", base |-> rec[hash], headers |-> headers, db |-> d]
    ELSE IF number = 0
    THEN IF verifyStandalone(e, ch[1], TRUE, ch[1].time) # "nil"
         THEN [err |-> verifyStandalone(e, ch[1], TRUE, ch[1].time), base |-> <<>>,
               headers |-> headers, db |-> d]
         ELSE Let(newSnapshot(0, Hash(ch[1]), ch[1].extraSigners),
                  LAMBDA snap : [err |-> "nil", base |-> snap, headers |-> headers,
                                 db |-> Put(d, snap.hash, snap)])
    ELSE IF Len(parents) > 0
    THEN IF Hash(parents[Len(parents)]) # hash \/ parents[Len(parents)].number # number
         THEN [err |-> "UnknownAncestor", base |-> <<>>, headers |-> headers, db |-> d]
         ELSE walkDiskFirst(ch, e, rec, d, number - 1, parents[Len(parents)].parentHash,
                            SubSeq(parents, 1, Len(parents) - 1),
                            Append(headers, parents[Len(parents)]))
    ELSE IF ~HasHeader(ch, hash, number)
    THEN [err |-> "UnknownAncestor", base |-> <<>>, headers |-> headers, db |-> d]
    ELSE walkDiskFirst(ch, e, rec, d, number - 1, ch[number + 1].parentHash, parents,
                       Append(headers, ch[number + 1]))

\* the loop of snapshot(): the walk back from (number, hash) to a snapshot in
\* memory, a checkpoint snapshot on disk or the genesis block, gathering the
\* headers passed, newest first. The genesis block is verified by a clock
\* that is not behind the time the block carries.
RECURSIVE walk(_, _, _, _, _, _, _, _)
walk(ch, e, rec, d, number, hash, parents, headers) ==
    IF hash \in DOMAIN rec
    THEN [err |-> "nil", base |-> rec[hash], headers |-> headers, db |-> d]
    ELSE IF (number + e.Gap) % e.Epoch = 0 /\ hash \in DOMAIN d
    THEN [err |-> "nil", base |-> d[hash], headers |-> headers, db |-> d]
    ELSE IF number = 0
    THEN IF verifyStandalone(e, ch[1], TRUE, ch[1].time) # "nil"
         THEN [err |-> verifyStandalone(e, ch[1], TRUE, ch[1].time), base |-> <<>>,
               headers |-> headers, db |-> d]
         ELSE Let(newSnapshot(0, Hash(ch[1]), ch[1].extraSigners),
                  LAMBDA snap : [err |-> "nil", base |-> snap, headers |-> headers,
                                 db |-> Put(d, snap.hash, snap)])
    ELSE IF Len(parents) > 0
    THEN IF Hash(parents[Len(parents)]) # hash \/ parents[Len(parents)].number # number
         THEN [err |-> "UnknownAncestor", base |-> <<>>, headers |-> headers, db |-> d]
         ELSE walk(ch, e, rec, d, number - 1, parents[Len(parents)].parentHash,
                   SubSeq(parents, 1, Len(parents) - 1),
                   Append(headers, parents[Len(parents)]))
    ELSE IF ~HasHeader(ch, hash, number)
    THEN [err |-> "UnknownAncestor", base |-> <<>>, headers |-> headers, db |-> d]
    ELSE walk(ch, e, rec, d, number - 1, ch[number + 1].parentHash, parents,
              Append(headers, ch[number + 1]))

\* the end of snapshot(): the snapshot is stored in memory, and on disk when
\* it is a checkpoint snapshot
store(e, rec, d, snap) ==
    [err |-> "nil", snap |-> snap, recents |-> Put(rec, snap.hash, snap),
     db |-> IF (snap.number + e.Gap) % e.Epoch = 0 THEN Put(d, snap.hash, snap) ELSE d]

\* snapshot() that forgets the headers gathered on the walk
snapshotNoApply(ch, e, rec, d, number, hash, parents) ==
    Let(walk(ch, e, rec, d, number, hash, parents, <<>>), LAMBDA w :
        IF w.err # "nil"
        THEN [err |-> w.err, snap |-> <<>>, recents |-> rec, db |-> w.db]
        ELSE store(e, rec, w.db, w.base))

\* snapshot() that empties the memory when it fails
snapshotPurges(ch, e, rec, d, number, hash, parents) ==
    Let(walk(ch, e, rec, d, number, hash, parents, <<>>), LAMBDA w :
        IF w.err # "nil"
        THEN [err |-> w.err, snap |-> <<>>, recents |-> <<>>, db |-> w.db]
        ELSE Let(apply(e, w.base, Reverse(w.headers)), LAMBDA a :
                 IF a.err # "nil"
                 THEN [err |-> a.err, snap |-> <<>>, recents |-> <<>>, db |-> w.db]
                 ELSE store(e, rec, w.db, a.snap)))

\* snapshot(chain, number, hash, parents): the snapshot at a block, with the
\* in-memory and the persisted snapshots as the call leaves them
snapshot(ch, e, rec, d, number, hash, parents) ==
    Let(walk(ch, e, rec, d, number, hash, parents, <<>>), LAMBDA w :
        IF w.err # "nil"
        THEN [err |-> w.err, snap |-> <<>>, recents |-> rec, db |-> w.db]
        ELSE Let(apply(e, w.base, Reverse(w.headers)), LAMBDA a :
                 IF a.err # "nil"
                 THEN [err |-> a.err, snap |-> <<>>, recents |-> rec, db |-> w.db]
                 ELSE store(e, rec, w.db, a.snap)))

-----------------------------------------------------------------------------
(* Verification *)

\* common.LimitPenaltyEpoch
LimitPenaltyEpoch == 4

\* seen > number - limit in uint64 arithmetic, for block numbers far below
\* 2^64: when number < limit the difference wraps around to at least
\* 2^64 - limit, which no block number exceeds
GtWrapSub(seen, number, limit) ==
    IF number >= limit THEN seen > number - limit ELSE FALSE

\* common.RemoveItemFromArray(array, items)
RemoveItemFromArray(array, items) == SelectSeq(array, LAMBDA a : a \notin items)

\* utils.CompareSignersLists(list1, list2): equal once both are sorted
CompareSignersLists(list1, list2) ==
    /\ Len(list1) = Len(list2)
    /\ \A a \in Range(list1) \cup Range(list2) :
          Cardinality({i \in 1..Len(list1) : list1[i] = a})
              = Cardinality({i \in 1..Len(list2) : list2[i] = a})

\* YourTurn(chain, parent, signer) in the engine: the masternodes of the
\* parent's epoch, GetSnapshot(parent) and whoIsCreator(parent)
YourTurnAt(ch, e, rec, d, parent, signer) ==
    Let(snapshot(ch, e, rec, d, parent.number, Hash(parent), <<>>), LAMBDA s :
        [yt |-> YourTurn(GetMasternodes(ch, e, parent), s.err = "nil", parent.number,
                         parent.creator, signer),
         recents |-> s.recents, db |-> s.db])

\* calcDifficulty(chain, parent, signer) in the engine
calcDifficultyAt(ch, e, rec, d, parent, signer) ==
    Let(snapshot(ch, e, rec, d, parent.number, Hash(parent), <<>>), LAMBDA s :
        [difficulty |-> calcDifficulty(GetMasternodes(ch, e, parent), s.err = "nil",
                                       parent.number, parent.creator, signer),
         recents |-> s.recents, db |-> s.db])

\* utils.GetM1M2: masternode i is paired with the masternode its validator
\* number names
M1M2(masternodes, validators) ==
    [a \in Range(masternodes) |->
        masternodes[(validators[position(masternodes, a) + 1] % Len(masternodes)) + 1]]

\* GetValidator(creator, chain, header): the validator the checkpoint of the
\* header's epoch assigns to creator. common.EpocBlockRandomize is the epoch
\* length.
GetValidator(ch, e, creator, h) ==
    LET no == h.number
        cpNo == no - (no % e.Epoch)
    IN  IF cpNo = 0 THEN [err |-> "nil", validator |-> ZeroAddr]
        ELSE IF ~HasNumber(ch, cpNo) /\ no % e.Epoch # 0
        THEN [err |-> "couldn't find checkpoint header", validator |-> ZeroAddr]
        ELSE LET cp == IF HasNumber(ch, cpNo) THEN ch[cpNo + 1] ELSE h
                 ms == MasternodesFromCheckpointHeader(cp)
             IN  IF cp.number % e.Epoch # 0
                 THEN [err |-> "not checkpoint block", validator |-> ZeroAddr]
                 ELSE IF Len(cp.validators) < Len(ms)
                 THEN [err |-> "GetM1M2", validator |-> ZeroAddr]
                 ELSE [err |-> "nil",
                       validator |-> IF creator \in Range(ms)
                                     THEN M1M2(ms, cp.validators)[creator] ELSE ZeroAddr]

\* the recency rule that also spares a list of two masternodes
RecentlySignedAboveTwo(e, snap, masternodes, creator, number) ==
    /\ Len(masternodes) > 2
    /\ \E seen \in DOMAIN snap.recents :
          /\ snap.recents[seen] = creator
          /\ GtWrapSub(seen, number, 2)
          /\ number % e.Epoch # 0

\* the recency rule of verifySeal: creator signed a block that the new one
\* does not shift out
RecentlySigned(e, snap, masternodes, creator, number) ==
    /\ Len(masternodes) > 1
    /\ \E seen \in DOMAIN snap.recents :
          /\ snap.recents[seen] = creator
          /\ GtWrapSub(seen, number, 2)
          /\ number % e.Epoch # 0

\* the double validation of verifySeal: the validator's signature is by the
\* masternode the checkpoint assigns to the creator
doubleValidation(ch, e, h) ==
    IF h.validator = NoValidator THEN "FailValidatorSignature"
    ELSE IF GetValidator(ch, e, h.creator, h).err # "nil"
    THEN GetValidator(ch, e, h.creator, h).err
    ELSE IF h.validator # GetValidator(ch, e, h.creator, h).validator
    THEN "FailedDoubleValidation"
    ELSE "nil"

\* verifySeal without the recency rule
verifySealNoRecency(ch, e, rec, d, h, parents, fullVerify) ==
    IF h.number = 0 THEN [err |-> "UnknownBlock", recents |-> rec, db |-> d]
    ELSE
    Let(snapshot(ch, e, rec, d, h.number - 1, h.parentHash, parents), LAMBDA s :
    IF s.err # "nil" THEN [err |-> s.err, recents |-> s.recents, db |-> s.db]
    ELSE
    Let(calcDifficultyAt(ch, e, s.recents, s.db,
                         IF Len(parents) > 0 THEN parents[Len(parents)] ELSE ch[h.number],
                         h.creator), LAMBDA c :
    [err |-> IF h.difficulty # c.difficulty THEN "InvalidDifficulty"
             ELSE IF /\ h.creator \notin s.snap.signers
                     /\ h.creator \notin Range(GetMasternodes(ch, e, h))
             THEN "Unauthorized"
             ELSE IF h.number > e.Epoch /\ fullVerify
             THEN doubleValidation(ch, e, h)
             ELSE "nil",
     recents |-> c.recents, db |-> c.db]))

\* verifySeal without the double validation
verifySealNoDoubleValidation(ch, e, rec, d, h, parents, fullVerify) ==
    IF h.number = 0 THEN [err |-> "UnknownBlock", recents |-> rec, db |-> d]
    ELSE
    Let(snapshot(ch, e, rec, d, h.number - 1, h.parentHash, parents), LAMBDA s :
    IF s.err # "nil" THEN [err |-> s.err, recents |-> s.recents, db |-> s.db]
    ELSE
    Let(calcDifficultyAt(ch, e, s.recents, s.db,
                         IF Len(parents) > 0 THEN parents[Len(parents)] ELSE ch[h.number],
                         h.creator), LAMBDA c :
    [err |-> IF h.difficulty # c.difficulty THEN "InvalidDifficulty"
             ELSE IF /\ h.creator \notin s.snap.signers
                     /\ h.creator \notin Range(GetMasternodes(ch, e, h))
             THEN "Unauthorized"
             ELSE IF RecentlySigned(e, s.snap, GetMasternodes(ch, e, h), h.creator, h.number)
             THEN "Unauthorized"
             ELSE "nil",
     recents |-> c.recents, db |-> c.db]))

\* verifySeal that does not ask who the creator is
verifySealAnyCreator(ch, e, rec, d, h, parents, fullVerify) ==
    IF h.number = 0 THEN [err |-> "UnknownBlock", recents |-> rec, db |-> d]
    ELSE
    Let(snapshot(ch, e, rec, d, h.number - 1, h.parentHash, parents), LAMBDA s :
    IF s.err # "nil" THEN [err |-> s.err, recents |-> s.recents, db |-> s.db]
    ELSE
    Let(calcDifficultyAt(ch, e, s.recents, s.db,
                         IF Len(parents) > 0 THEN parents[Len(parents)] ELSE ch[h.number],
                         h.creator), LAMBDA c :
    [err |-> IF h.difficulty # c.difficulty THEN "InvalidDifficulty"
             ELSE IF RecentlySigned(e, s.snap, GetMasternodes(ch, e, h), h.creator, h.number)
             THEN "Unauthorized"
             ELSE IF h.number > e.Epoch /\ fullVerify
             THEN doubleValidation(ch, e, h)
             ELSE "nil",
     recents |-> c.recents, db |-> c.db]))

\* verifySeal(chain, header, parents, fullVerify): the error ("nil": none)
\* and the snapshot caches as the call leaves them
verifySeal(ch, e, rec, d, h, parents, fullVerify) ==
    IF h.number = 0 THEN [err |-> "UnknownBlock", recents |-> rec, db |-> d]
    ELSE
    Let(snapshot(ch, e, rec, d, h.number - 1, h.parentHash, parents), LAMBDA s :
    IF s.err # "nil" THEN [err |-> s.err, recents |-> s.recents, db |-> s.db]
    ELSE
    Let(calcDifficultyAt(ch, e, s.recents, s.db,
                         IF Len(parents) > 0 THEN parents[Len(parents)] ELSE ch[h.number],
                         h.creator), LAMBDA c :
    [err |-> IF h.difficulty # c.difficulty THEN "InvalidDifficulty"
             ELSE IF /\ h.creator \notin s.snap.signers
                     /\ h.creator \notin Range(GetMasternodes(ch, e, h))
             THEN "Unauthorized"
             ELSE IF RecentlySigned(e, s.snap, GetMasternodes(ch, e, h), h.creator, h.number)
             THEN "Unauthorized"
             ELSE IF h.number > e.Epoch /\ fullVerify
             THEN doubleValidation(ch, e, h)
             ELSE "nil",
     recents |-> c.recents, db |-> c.db]))

\* the Go runtime ends the process: a method was called on a nil block
Panic == "panic: nil pointer dereference"

\* removePenaltiesFromBlock is called for a checkpoint that the chain does
\* not hold (it is among the parents of a batch): chain.GetBlock answers nil
\* and block.Penalties() is called on it
removePenaltiesPanics(ch, e, number) ==
    \E i \in 1..LimitPenaltyEpoch :
        number > i * e.Epoch /\ ~HasNumber(ch, number - i * e.Epoch)

\* removePenaltiesFromBlock for the epochs 1..i before the checkpoint
RECURSIVE removePenalties(_, _, _, _, _)
removePenalties(ch, e, signers, number, i) ==
    IF i = 0 THEN signers
    ELSE RemoveItemFromArray(removePenalties(ch, e, signers, number, i - 1),
                             IF number > i * e.Epoch
                             THEN ch[number - i * e.Epoch + 1].penalties ELSE {})

\* the penalty hook that checkSignersOnCheckpoint calls: HookPenaltyTIPSigning
\* (chain, header, signers) from the TIPSigning block on, HookPenalty(chain,
\* number) before it. The deployment fixes what the hooks answer.
penaltyHook(e, h, signers) ==
    IF h.number >= e.TIPSigning
    THEN [err |-> IF Range(signers) \in e.HookPenaltyTIPSigning.failsOn
                  THEN e.HookPenaltyTIPSigning.err ELSE "nil",
          penalties |-> e.HookPenaltyTIPSigning.penalties]
    ELSE e.HookPenalty

\* the end of checkSignersOnCheckpoint that takes any list in the header
compareAndVerifyMNsAnyList(e, h, left) ==
    IF e.HookVerifyMNs.installed /\ Range(left) \in e.HookVerifyMNs.failsOn
    THEN e.HookVerifyMNs.err
    ELSE "nil"

\* the end of checkSignersOnCheckpoint: the list in the header against the
\* signers left, then HookVerifyMNs
compareAndVerifyMNs(e, h, left) ==
    IF ~CompareSignersLists(MasternodesFromCheckpointHeader(h), left)
    THEN "InvalidCheckpointSigners"
    ELSE IF e.HookVerifyMNs.installed /\ Range(left) \in e.HookVerifyMNs.failsOn
    THEN e.HookVerifyMNs.err
    ELSE "nil"

\* checkSignersOnCheckpoint that skips the comparison of the penalties
checkSignersOnCheckpointAnyPenalties(ch, e, h, signers) ==
    IF h.number = e.IgnoreSignerCheckBlock THEN "nil"
    ELSE IF e.penaltyHooks
    THEN Let(penaltyHook(e, h, signers), LAMBDA p :
             IF p.err # "nil" THEN p.err
             ELSE IF removePenaltiesPanics(ch, e, h.number) THEN Panic
             ELSE compareAndVerifyMNs(e, h,
                      removePenalties(ch, e, RemoveItemFromArray(signers, p.penalties),
                                      h.number, LimitPenaltyEpoch)))
    ELSE IF removePenaltiesPanics(ch, e, h.number) THEN Panic
    ELSE compareAndVerifyMNs(e, h, removePenalties(ch, e, signers, h.number,
                                                   LimitPenaltyEpoch))

\* checkSignersOnCheckpoint(chain, header, signers)
checkSignersOnCheckpoint(ch, e, h, signers) ==
    IF h.number = e.IgnoreSignerCheckBlock THEN "nil"
    ELSE IF e.penaltyHooks
    THEN Let(penaltyHook(e, h, signers), LAMBDA p :
             IF p.err # "nil" THEN p.err
             ELSE IF h.penalties # p.penalties THEN "InvalidCheckpointPenalties"
             ELSE IF removePenaltiesPanics(ch, e, h.number) THEN Panic
             ELSE compareAndVerifyMNs(e, h,
                      removePenalties(ch, e, RemoveItemFromArray(signers, p.penalties),
                                      h.number, LimitPenaltyEpoch)))
    ELSE IF removePenaltiesPanics(ch, e, h.number) THEN Panic
    ELSE compareAndVerifyMNs(e, h, removePenalties(ch, e, signers, h.number,
                                                   LimitPenaltyEpoch))

\* getSignersFromContract(chain, checkpointHeader): the answer of
\* HookGetSignersFromContract, its error inside a new one
getSignersFromContract(e) ==
    IF e.HookGetSignersFromContract.err # "nil"
    THEN [err |-> "Can't get signers from Smart Contract . Err: "
                      \o e.HookGetSignersFromContract.err,
          signers |-> <<>>]
    ELSE [err |-> "nil", signers |-> e.contract]

\* the header's parent: the last of parents, else the header the chain has
\* under the parent hash; <<>> when there is none
parentOf(ch, h, parents) ==
    IF Len(parents) > 0 THEN parents[Len(parents)]
    ELSE IF HasHeader(ch, h.parentHash, h.number - 1) THEN ch[h.number]
    ELSE <<>>

\* the checkpoint branch of verifyCascadingFields, from the snapshot s of the
\* parent on
verifyCheckpoint(ch, e, h, parents, fullVerify, s) ==
    IF s.err # "nil" THEN [err |-> s.err, recents |-> s.recents, db |-> s.db]
    ELSE IF checkSignersOnCheckpoint(ch, e, h, GetSigners(s.snap)) = "nil"
    THEN verifySeal(ch, e, s.recents, s.db, h, parents, fullVerify)
    ELSE IF checkSignersOnCheckpoint(ch, e, h, GetSigners(s.snap)) = Panic
    THEN [err |-> Panic, recents |-> s.recents, db |-> s.db]
    ELSE IF getSignersFromContract(e).err # "nil"
    THEN [err |-> getSignersFromContract(e).err, recents |-> s.recents, db |-> s.db]
    ELSE IF checkSignersOnCheckpoint(ch, e, h, getSignersFromContract(e).signers) = "nil"
    THEN verifySeal(ch, e, s.recents, s.db, h, parents, fullVerify)
    ELSE [err |-> checkSignersOnCheckpoint(ch, e, h, getSignersFromContract(e).signers),
          recents |-> s.recents, db |-> s.db]

\* verifyCascadingFields without the rule on the timestamp
verifyCascadingFieldsAnyTime(ch, e, rec, d, h, parents, fullVerify) ==
    IF h.number = 0 THEN [err |-> "nil", recents |-> rec, db |-> d]
    ELSE IF \/ parentOf(ch, h, parents) = <<>>
            \/ parentOf(ch, h, parents).number # h.number - 1
            \/ Hash(parentOf(ch, h, parents)) # h.parentHash
    THEN [err |-> "UnknownAncestor", recents |-> rec, db |-> d]
    ELSE IF h.number % e.Epoch # 0 THEN verifySeal(ch, e, rec, d, h, parents, fullVerify)
    ELSE verifyCheckpoint(ch, e, h, parents, fullVerify,
                          snapshot(ch, e, rec, d, h.number - 1, h.parentHash, parents))

\* verifyCascadingFields(chain, header, parents, fullVerify)
verifyCascadingFields(ch, e, rec, d, h, parents, fullVerify) ==
    IF h.number = 0 THEN [err |-> "nil", recents |-> rec, db |-> d]
    ELSE IF \/ parentOf(ch, h, parents) = <<>>
            \/ parentOf(ch, h, parents).number # h.number - 1
            \/ Hash(parentOf(ch, h, parents)) # h.parentHash
    THEN [err |-> "UnknownAncestor", recents |-> rec, db |-> d]
    ELSE IF parentOf(ch, h, parents).time + e.Period > h.time
    THEN [err |-> "InvalidTimestamp", recents |-> rec, db |-> d]
    ELSE IF h.number % e.Epoch # 0 THEN verifySeal(ch, e, rec, d, h, parents, fullVerify)
    ELSE verifyCheckpoint(ch, e, h, parents, fullVerify,
                          snapshot(ch, e, rec, d, h.number - 1, h.parentHash, parents))

\* verifyHeader(chain, header, parents, fullVerify) with the clock at now
verifyHeader(ch, e, rec, d, h, parents, fullVerify, now) ==
    LET full == fullVerify /\ ~e.IsTestnet
    IN  IF verifyStandalone(e, h, fullVerify, now) # "nil"
        THEN [err |-> verifyStandalone(e, h, fullVerify, now), recents |-> rec, db |-> d]
        ELSE verifyCascadingFields(ch, e, rec, d, h, parents, full)

-----------------------------------------------------------------------------
(* The engine and its callers *)

\* UpdateMasternodes calls in one run
MaxUpdates == 1

\* the genesis block of a deployment
Genesis(signers) ==
    [number |-> 0, parentHash |-> <<>>, creator |-> ZeroAddr, coinbase |-> ZeroAddr,
     nonce |-> NonceDropVote, difficulty |-> 0, extraSigners |-> signers,
     validator |-> NoValidator, validators |-> <<>>, penalties |-> {},
     time |-> 0, extraLen |-> ExtraLen(signers, 0), mixDigest |-> ZeroHash,
     uncleHash |-> UncleHash]

\* how an offered header is put together: its time against parent.time +
\* Period, the bytes of its extra ("whole": vanity, whole addresses and seal;
\* "odd": one byte more; "signers": the contract's list on any block;
\* "noVanity", "noSeal": too short), its digests and its parent ("tip",
\* "genesis" or "unknown")
Form(dt, extra, mixDigest, uncleHash, parent) ==
    [dt |-> dt, extra |-> extra, mixDigest |-> mixDigest, uncleHash |-> uncleHash,
     parent |-> parent]

WellFormed == Form(0, "whole", ZeroHash, UncleHash, "tip")

\* the forms that break one rule each
Malformed ==
    {Form(1, "whole", ZeroHash, UncleHash, "tip"),
     Form(-1, "whole", ZeroHash, UncleHash, "tip"),
     Form(0, "odd", ZeroHash, UncleHash, "tip"),
     Form(0, "signers", ZeroHash, UncleHash, "tip"),
     Form(0, "noVanity", ZeroHash, UncleHash, "tip"),
     Form(0, "noSeal", ZeroHash, UncleHash, "tip"),
     Form(0, "whole", OtherHash, UncleHash, "tip"),
     Form(0, "whole", ZeroHash, "other", "tip"),
     Form(0, "whole", ZeroHash, UncleHash, "genesis"),
     Form(0, "whole", ZeroHash, UncleHash, "unknown")}

\* a hook that is not installed, or that never fails
NoHook == [installed |-> FALSE, failsOn |-> {}, err |-> "nil", penalties |-> {}]

\* what a deployment has unless it says otherwise: well-formed headers
\* only, with the difficulty computed or one more, a clock at the earliest
\* time of the next block, no hooks but the contract's, the signer check
\* skipped at mainnet's block
Plain ==
    [Period |-> 2, forms |-> {WellFormed}, clocks |-> {0}, offDifficulty |-> {0, 1},
     cpVotes |-> {<<ZeroAddr, NonceDropVote>>}, penalties |-> {{}},
     IgnoreSignerCheckBlock |-> 14458500, TIPSigning |-> 0,
     penaltyHooks |-> FALSE, HookPenalty |-> [err |-> "nil", penalties |-> {}],
     HookPenaltyTIPSigning |-> NoHook, HookVerifyMNs |-> NoHook,
     HookGetSignersFromContract |-> [err |-> "nil"]]

\* a chain of one masternode that can vote itself out
SoloNet ==
    [Epoch |-> 3, Gap |-> 1, IsTestnet |-> TRUE, genesis |-> <<"A">>,
     creators |-> {"A"}, votes |-> {<<ZeroAddr, NonceDropVote>>, <<"A", NonceDropVote>>},
     lists |-> {<<"A">>, <<>>}, cosigners |-> {NoValidator, "A"},
     ms |-> {{}, {"A", "B"}}, contract |-> <<"A", "B">>, shift |-> 0] @@ Plain

\* three masternodes, two of them producing blocks, and a candidate D
TrioNet ==
    [Epoch |-> 3, Gap |-> 1, IsTestnet |-> FALSE, genesis |-> <<"A", "B", "C">>,
     creators |-> {"A", "B"}, votes |-> {<<ZeroAddr, NonceDropVote>>, <<"D", NonceAuthVote>>},
     lists |-> {<<"A", "B", "C">>, <<"A", "B", "C", "D">>}, cosigners |-> {NoValidator, "B", "C"},
     ms |-> {{"A", "B"}, {"A"}}, contract |-> <<"A", "B">>, shift |-> 1] @@ Plain

\* six masternodes and a longer epoch
HexNet ==
    [Epoch |-> 4, Gap |-> 1, IsTestnet |-> FALSE,
     genesis |-> <<"A", "B", "C", "D", "E", "F">>,
     creators |-> {"A", "B"}, votes |-> {<<ZeroAddr, NonceDropVote>>},
     lists |-> {<<"A", "B", "C", "D", "E", "F">>}, cosigners |-> {NoValidator, "B"},
     ms |-> {{"A", "B", "C", "D", "E"}}, contract |-> <<"A", "B", "C", "D", "E">>,
     shift |-> 1] @@ Plain

\* one masternode, offered headers of every form with votes of every kind,
\* by a clock that may be a second ahead
FormNet ==
    [Epoch |-> 2, Gap |-> 1, IsTestnet |-> FALSE, genesis |-> <<"A">>,
     creators |-> {"A"},
     votes |-> {<<ZeroAddr, NonceDropVote>>, <<ZeroAddr, "0x1234">>},
     cpVotes |-> {<<ZeroAddr, NonceDropVote>>, <<ZeroAddr, NonceAuthVote>>,
                  <<"B", NonceDropVote>>},
     lists |-> {<<"A">>}, cosigners |-> {NoValidator, "A"},
     ms |-> {{"A", "B"}}, contract |-> <<"A">>, shift |-> 0,
     forms |-> {WellFormed} \cup Malformed, clocks |-> {0, 1},
     offDifficulty |-> {0}] @@ Plain

\* three masternodes, one of them producing blocks, a contract that names
\* two, and checkpoint headers offered with one of five lists and with or
\* without a penalty on C; the TIPSigning block is far above the chain
HookBase ==
    [Epoch |-> 2, Gap |-> 1, IsTestnet |-> FALSE, genesis |-> <<"A", "B", "C">>,
     creators |-> {"A"}, votes |-> {<<ZeroAddr, NonceDropVote>>},
     lists |-> {<<"A", "B", "C">>, <<"A", "B">>, <<"A">>, <<"B">>},
     contract |-> <<"A", "C">>, penalties |-> {{}, {"C"}},
     cosigners |-> {NoValidator}, ms |-> {{"A", "B"}}, shift |-> 1,
     offDifficulty |-> {0}, TIPSigning |-> 1000000] @@ Plain

\* the same with hooks: a HookPenalty that penalises C, one that fails, a
\* HookPenaltyTIPSigning and a HookVerifyMNs that fail on the signers of the
\* genesis block, a HookGetSignersFromContract that fails, and a network
\* whose first checkpoint is the block whose signers are not checked
HookNets ==
    {profile @@ HookBase : profile \in {
        [penaltyHooks |-> FALSE],
        [penaltyHooks |-> TRUE, HookPenalty |-> [err |-> "nil", penalties |-> {"C"}]],
        [penaltyHooks |-> TRUE,
         HookPenalty |-> [err |-> "HookPenalty: no state", penalties |-> {}]],
        [penaltyHooks |-> TRUE, TIPSigning |-> 0,
         HookPenaltyTIPSigning |-> [installed |-> TRUE, failsOn |-> {{"A", "B", "C"}},
                                    err |-> "HookPenaltyTIPSigning: no state",
                                    penalties |-> {}]],
        [HookVerifyMNs |-> [installed |-> TRUE, failsOn |-> {{"A", "B", "C"}},
                            err |-> "HookVerifyMNs: not a masternode",
                            penalties |-> {}]],
        [HookGetSignersFromContract |-> [err |-> "HookGetSignersFromContract: no state"]],
        [IgnoreSignerCheckBlock |-> 2]}}

\* every block a checkpoint, no hooks: the penalties of the checkpoints
\* before are removed from the signers
EveryNet ==
    [Epoch |-> 1, Gap |-> 0, lists |-> {<<"A", "B", "C">>, <<"A", "B">>}] @@ HookBase

\* the same on a test network, the headers well-formed or a second ahead
FormTestNet ==
    [IsTestnet |-> TRUE, forms |-> {WellFormed, Form(1, "whole", ZeroHash, UncleHash, "tip")},
     cpVotes |-> {<<ZeroAddr, NonceDropVote>>}, clocks |-> {0}] @@ FormNet

Tip == chain[Len(chain)]

\* header.ParentHash of an offered header
ParentHashOf(parent) ==
    IF parent = "tip" THEN Hash(Tip)
    ELSE IF parent = "genesis" THEN Hash(chain[1])
    ELSE <<"unknown">>

\* the addresses in the extra of an offered header
ExtraSignersOf(extra, list) ==
    IF extra \in {"noVanity", "noSeal"} THEN <<>>
    ELSE IF extra = "signers" THEN env.contract
    ELSE list

\* len(header.Extra) of an offered header
ExtraLenOf(extra, list) ==
    IF extra = "noVanity" THEN ExtraVanity - 1
    ELSE IF extra = "noSeal" THEN ExtraVanity + ExtraSeal - 1
    ELSE IF extra = "odd" THEN ExtraLen(list, 1)
    ELSE ExtraLen(ExtraSignersOf(extra, list), 0)

\* the headers offered for the next block: built on the tip by one of the
\* producers, with a vote, a difficulty that is the computed one or off it,
\* on a checkpoint a signer list, the validator numbers and the penalties,
\* above the first epoch a validator signature or none, in one of the forms
\* of the deployment
Candidates ==
    UNION {Let(calcDifficultyAt(chain, env, recents, db, Tip, c).difficulty,
               LAMBDA difficulty :
        {[number |-> Len(chain), parentHash |-> ParentHashOf(f.parent), creator |-> c,
          coinbase |-> v[1], nonce |-> v[2],
          difficulty |-> difficulty + dd,
          extraSigners |-> ExtraSignersOf(f.extra, l),
          validator |-> val,
          validators |-> [i \in 1..Len(l) |-> i - 1 + env.shift],
          penalties |-> pen,
          time |-> Tip.time + env.Period + f.dt,
          extraLen |-> ExtraLenOf(f.extra, l),
          mixDigest |-> f.mixDigest,
          uncleHash |-> f.uncleHash] :
            v \in IF Len(chain) % env.Epoch = 0 THEN env.cpVotes ELSE env.votes,
            dd \in env.offDifficulty,
            l \in IF Len(chain) % env.Epoch = 0 THEN env.lists \cup {env.contract}
                  ELSE {<<>>},
            val \in IF Len(chain) > env.Epoch THEN env.cosigners ELSE {NoValidator},
            pen \in IF Len(chain) % env.Epoch = 0 THEN env.penalties ELSE {{}},
            f \in env.forms}) : c \in env.creators}

\* time.Now() when the next block is offered, against the earliest time the
\* block may carry
Clocks == {Tip.time + env.Period + ahead : ahead \in env.clocks}

EngineStart(deployments) ==
    /\ env \in deployments
    /\ chain = <<Genesis(env.genesis)>>
    /\ recents = <<>>
    /\ db = <<>>
    /\ nUpdates = 0
    /\ tIn = <<>>
    /\ tOut = <<>>
    /\ CountdownIdle

\* New(config, db) over a chain that holds the genesis block
EngineInit(deployments) ==
    /\ EngineStart(deployments)
    /\ NodeIdle

\* VerifyHeader on a header offered for the next block; the importer inserts
\* the header when verification accepts it
ImportHeader ==
    /\ Len(chain) <= MaxNumber
    /\ \E h \in Candidates, fullVerify \in BOOLEAN, now \in Clocks :
          \E r \in {verifyHeader(chain, env, recents, db, h, <<>>, fullVerify, now)} :
              /\ recents' = r.recents
              /\ db' = r.db
              /\ chain' = IF r.err = "nil" THEN Append(chain, h) ELSE chain
    /\ UNCHANGED <<env, nUpdates, turnVars, cdVars, nodeVars>>

\* GetSnapshot(chain, header) for the current header
GetSnapshot ==
    /\ \E r \in {snapshot(chain, env, recents, db, Tip.number, Hash(Tip), <<>>)} :
          /\ recents' = r.recents
          /\ db' = r.db
    /\ UNCHANGED <<env, chain, nUpdates, turnVars, cdVars, nodeVars>>

\* UpdateMasternodes(chain, header, ms) for the current header
UpdateMasternodes ==
    /\ nUpdates < MaxUpdates
    /\ \E ms \in env.ms :
          \E r \in {snapshot(chain, env, recents, db, Tip.number, Hash(Tip), <<>>)} :
              /\ recents' = IF r.err = "nil"
                             THEN Put(r.recents, r.snap.hash, [r.snap EXCEPT !.signers = ms])
                             ELSE r.recents
              /\ db' = r.db
    /\ nUpdates' = nUpdates + 1
    /\ UNCHANGED <<env, chain, turnVars, cdVars, nodeVars>>

\* the node restarts: New() builds an engine with empty caches over the
\* same database
Restart ==
    /\ recents' = <<>>
    /\ UNCHANGED <<env, chain, db, nUpdates, turnVars, cdVars, nodeVars>>

Next == ImportHeader \/ GetSnapshot \/ UpdateMasternodes \/ Restart

Init == EngineInit({SoloNet, TrioNet})

Spec == Init /\ [][Next]_vars

InitHex == EngineInit({HexNet})

InitForm == EngineInit({FormNet, FormTestNet})

SpecForm == InitForm /\ [][Next]_vars

InitHook == EngineInit(HookNets \cup {EveryNet})

SpecHook == InitHook /\ [][Next]_vars

SpecHex == InitHex /\ [][Next]_vars

-----------------------------------------------------------------------------
(* Properties of the engine *)

\* the block numbers above genesis
Blocks == 1..(Len(chain) - 1)

Boundary(n) == n % env.Epoch = 0

\* the masternode list of the epoch of block n
EpochList(n) == GetMasternodes(chain, env, chain[n + 1])

\* every stored snapshot, in memory or on disk
Held == {recents[k] : k \in DOMAIN recents} \cup {db[k] : k \in DOMAIN db}

\* the snapshot at block n as the engine answers now
warm(n) == snapshot(chain, env, recents, db, n, Hash(chain[n + 1]), <<>>)

\* the snapshot at block n after a restart
cold(n) == snapshot(chain, env, <<>>, db, n, Hash(chain[n + 1]), <<>>)

\* the snapshot at block n rebuilt from the genesis block
rebuilt(n) == snapshot(chain, env, <<>>, <<>>, n, Hash(chain[n + 1]), <<>>)

\* the snapshot at block n resolved through the last k headers as parents
batch(n, k) ==
    snapshot(chain, env, recents, db, n, Hash(chain[n + 1]), SubSeq(chain, n + 2 - k, n + 1))

\* C4 as claimed: in a segment i..j of accepted headers with no epoch
\* boundary block and at most |M|/2 headers, no two headers have the same
\* creator
C4_RecencyBound ==
    \A i \in Blocks, j \in Blocks :
        (/\ i < j
         /\ \A n \in i..j : ~Boundary(n)
         /\ 2 * (j - i + 1) <= Len(EpochList(j)))
        => chain[i + 1].creator # chain[j + 1].creator

\* C4: two consecutive accepted headers, the second not an epoch boundary
\* block and its epoch's masternode list longer than one, have different
\* creators (a signer may create every other block)
C4_NoConsecutiveCreator ==
    \A n \in Blocks :
        (n >= 2 /\ ~Boundary(n) /\ Len(EpochList(n)) > 1)
        => chain[n + 1].creator # chain[n].creator

\* six masternodes, and blocks 1, 2, 3 of one epoch created by A, B, A
C4_Witness ==
    /\ Len(chain) >= 4
    /\ Len(EpochList(3)) = 6
    /\ \A n \in 1..3 : ~Boundary(n)
    /\ <<chain[2].creator, chain[3].creator, chain[4].creator>> = <<"A", "B", "A">>

\* the creator of h is in the recents of the parent's snapshot at a block
\* number seen > number - 2
Barred(h) ==
    \E s \in {snapshot(chain, env, recents, db, h.number - 1, h.parentHash, <<>>)} :
        /\ s.err = "nil"
        /\ \E seen \in DOMAIN s.snap.recents :
              s.snap.recents[seen] = h.creator /\ seen + 2 > h.number

\* C5 as claimed: verifySeal rejects every header offered that is not an
\* epoch boundary block and whose creator is barred
C5_RecencyRejectsAlways ==
    \A h \in Candidates, fullVerify \in BOOLEAN :
        (~Boundary(h.number) /\ Barred(h))
        => verifySeal(chain, env, recents, db, h, <<>>, fullVerify).err # "nil"

\* C5: when the epoch's masternode list is longer than one, verifySeal
\* rejects every header offered that is not an epoch boundary block and
\* whose creator is barred
C5_RecencyRejects ==
    \A h \in Candidates, fullVerify \in BOOLEAN :
        (~Boundary(h.number) /\ Barred(h) /\ Len(GetMasternodes(chain, env, h)) > 1)
        => verifySeal(chain, env, recents, db, h, <<>>, fullVerify).err
               \in {"InvalidDifficulty", "Unauthorized"}

\* a header with the right difficulty whose creator is barred is offered and
\* rejected as unauthorized
C5_Witness ==
    \E h \in Candidates :
        /\ ~Boundary(h.number) /\ Barred(h) /\ Len(GetMasternodes(chain, env, h)) > 1
        /\ h.difficulty = calcDifficultyAt(chain, env, recents, db, Tip, h.creator).difficulty
        /\ verifySeal(chain, env, recents, db, h, <<>>, TRUE).err = "Unauthorized"

\* the validator the m1->m2 map of the header's epoch assigns to its creator
assigned(h) ==
    LET cpNo == h.number - (h.number % env.Epoch)
        cp == IF HasNumber(chain, cpNo) THEN chain[cpNo + 1] ELSE h
        ms == cp.extraSigners
        i == position(ms, h.creator)
    IN  IF i = -1 THEN ZeroAddr ELSE ms[(cp.validators[i + 1] % Len(ms)) + 1]

\* C6 as claimed: every header above the first epoch that verifyHeader
\* accepts carries the signature of the validator assigned to its creator
C6_AcceptedDoubleValidated ==
    \A h \in Candidates, fullVerify \in BOOLEAN, now \in Clocks :
        (/\ h.number > env.Epoch
         /\ verifyHeader(chain, env, recents, db, h, <<>>, fullVerify, now).err = "nil")
        => h.validator = assigned(h)

\* C6: verifySeal with fullVerify set accepts a header above the first epoch
\* only if its validator is the one assigned to its creator, and a signed
\* header that passes the earlier checks with another validator fails with
\* FailedDoubleValidation
C6_DoubleValidation ==
    \A h \in Candidates :
        h.number > env.Epoch =>
            \E r \in {verifySeal(chain, env, recents, db, h, <<>>, TRUE)} :
                /\ r.err = "nil" => h.validator = assigned(h)
                /\ (h.validator \notin {NoValidator, assigned(h)})
                       => r.err \in {"InvalidDifficulty", "Unauthorized",
                                     "FailedDoubleValidation"}

\* scenario S2: above the first epoch a header by A, whose assigned validator
\* is B, is accepted with B's signature and fails with FailedDoubleValidation
\* with C's
C6_Witness ==
    /\ \E h \in Candidates :
          /\ h.number > env.Epoch /\ h.creator = "A" /\ h.validator = "B"
          /\ assigned(h) = "B"
          /\ verifySeal(chain, env, recents, db, h, <<>>, TRUE).err = "nil"
    /\ \E h \in Candidates :
          /\ h.number > env.Epoch /\ h.creator = "A" /\ h.validator = "C"
          /\ verifySeal(chain, env, recents, db, h, <<>>, TRUE).err = "FailedDoubleValidation"

\* C7: for every block of the chain the snapshot has the same signer set
\* whether it is answered with the in-memory snapshots, after a restart from
\* the persisted ones, from the genesis block, or through a batch of parents
C7_SnapshotDeterminism ==
    \A n \in 0..(Len(chain) - 1) :
        /\ warm(n).err = "nil" /\ cold(n).err = "nil" /\ rebuilt(n).err = "nil"
        /\ warm(n).snap.signers = rebuilt(n).snap.signers
        /\ cold(n).snap.signers = rebuilt(n).snap.signers
        /\ \A k \in 0..n :
              /\ batch(n, k).err = "nil"
              /\ batch(n, k).snap.signers = rebuilt(n).snap.signers

\* C8: every stored snapshot has a signer
C8_SignersNonEmpty == \A s \in Held : s.signers # {}

\* C9: every stored snapshot has at most |signers|/2 recent signers
C9_RecentsBounded ==
    \A s \in Held : Cardinality(DOMAIN s.recents) <= Cardinality(s.signers) \div 2

\* the votes on the coinbase of block n that count once block n is applied
tally(n) ==
    LET h == chain[n + 1]
        prev == rebuilt(n - 1).snap
        standing == IF Boundary(n) THEN {} ELSE prev.votes
    IN  Cardinality({v \in standing : v.address = h.coinbase /\ v.signer # h.creator})
            + (IF validVote(prev, h.coinbase, h.nonce = NonceAuthVote) THEN 1 ELSE 0)

VotesFor(n, creator, address) ==
    /\ chain[n + 1].creator = creator
    /\ chain[n + 1].coinbase = address
    /\ chain[n + 1].nonce = NonceAuthVote

\* C10: applying a header changes the signer set exactly when the tally of
\* the votes on its coinbase exceeds |signers|/2, and then only the
\* membership of the coinbase changes; from signers {A, B, C} one vote for D
\* by A leaves the signers as they are and a second one by B adds D
C10_VoteFlip ==
    /\ \A n \in Blocks :
          \E prev \in {rebuilt(n - 1).snap}, cur \in {rebuilt(n).snap} :
              /\ (cur.signers # prev.signers)
                     <=> (tally(n) > Cardinality(prev.signers) \div 2)
              /\ \A a \in AllAddr \ {chain[n + 1].coinbase} :
                     (a \in cur.signers) <=> (a \in prev.signers)
    /\ (/\ Len(chain) >= 2
        /\ rebuilt(0).snap.signers = {"A", "B", "C"}
        /\ VotesFor(1, "A", "D"))
       => rebuilt(1).snap.signers = {"A", "B", "C"}
    /\ (/\ Len(chain) >= 3
        /\ rebuilt(0).snap.signers = {"A", "B", "C"}
        /\ VotesFor(1, "A", "D") /\ VotesFor(2, "B", "D"))
       => rebuilt(2).snap.signers = {"A", "B", "C", "D"}

\* scenario S3: from {A, B, C}, blocks 1 and 2 by A and B vote D in
C10_Witness ==
    /\ Len(chain) >= 3
    /\ rebuilt(0).snap.signers = {"A", "B", "C"}
    /\ VotesFor(1, "A", "D") /\ VotesFor(2, "B", "D")
    /\ rebuilt(1).snap.signers = {"A", "B", "C"}
    /\ rebuilt(2).snap.signers = {"A", "B", "C", "D"}

-----------------------------------------------------------------------------
(* The countdown timer (common/countdown) *)

\* longest duration of a countdown, in ticks
MaxDuration == 3

Min(a, b) == IF a <= b THEN a ELSE b

\* Reset that leaves the firing scheduled before in place
ResetNoCancel ==
    /\ initilised' = TRUE
    /\ pending' = pending \cup {timeoutDuration}
    /\ lastCtl' = "Reset"
    /\ sinceCtl' = 0
    /\ calls' = 0
    /\ cancelled' = (pending # {})
    /\ resetBit' = ~resetBit
    /\ UNCHANGED <<timeoutDuration, turnVars, engineVars, nodeVars>>

\* Reset that schedules a firing only when it starts the timer
ResetOnlyStarts ==
    /\ initilised' = TRUE
    /\ pending' = IF initilised THEN pending ELSE {timeoutDuration}
    /\ lastCtl' = "Reset"
    /\ sinceCtl' = 0
    /\ calls' = 0
    /\ cancelled' = (pending # {})
    /\ resetBit' = ~resetBit
    /\ UNCHANGED <<timeoutDuration, turnVars, engineVars, nodeVars>>

\* CountdownTimer.Reset(): the firing scheduled before, if any, is cancelled
\* and one is scheduled timeoutDuration from now
Reset ==
    /\ initilised' = TRUE
    /\ pending' = {timeoutDuration}
    /\ lastCtl' = "Reset"
    /\ sinceCtl' = 0
    /\ calls' = 0
    /\ cancelled' = (pending # {})
    /\ resetBit' = ~resetBit
    /\ UNCHANGED <<timeoutDuration, turnVars, engineVars, nodeVars>>

\* StopTimer that leaves the firing scheduled in place
StopTimerKeepPending ==
    /\ initilised' = FALSE
    /\ lastCtl' = "StopTimer"
    /\ sinceCtl' = 0
    /\ calls' = 0
    /\ cancelled' = (pending # {})
    /\ UNCHANGED <<pending, timeoutDuration, resetBit, turnVars, engineVars, nodeVars>>

\* CountdownTimer.StopTimer()
StopTimer ==
    /\ initilised' = FALSE
    /\ pending' = {}
    /\ lastCtl' = "StopTimer"
    /\ sinceCtl' = 0
    /\ calls' = 0
    /\ cancelled' = (pending # {})
    /\ UNCHANGED <<timeoutDuration, resetBit, turnVars, engineVars, nodeVars>>

\* one tick of time passes; a firing that is due may be late
Tick ==
    /\ pending' = {IF r = 0 THEN 0 ELSE r - 1 : r \in pending}
    /\ sinceCtl' = Min(sinceCtl + 1, MaxDuration + 1)
    /\ UNCHANGED <<timeoutDuration, initilised, lastCtl, calls, cancelled, resetBit,
                   turnVars, engineVars, nodeVars>>

\* a firing that marks the timer as not initialised
FireUninitialise ==
    /\ 0 \in pending
    /\ pending' = pending \ {0}
    /\ calls' = Min(calls + 1, 2)
    /\ initilised' = FALSE
    /\ UNCHANGED <<timeoutDuration, lastCtl, sinceCtl, cancelled, resetBit,
                   turnVars, engineVars, nodeVars>>

\* a firing that stays scheduled
FireKeepsSchedule ==
    /\ 0 \in pending
    /\ calls' = Min(calls + 1, 2)
    /\ UNCHANGED <<pending, timeoutDuration, initilised, lastCtl, sinceCtl, cancelled,
                   resetBit, turnVars, engineVars, nodeVars>>

\* the timer fires: a scheduled firing is due and OnTimeoutFn is invoked; the
\* timer stays initialised
Fire ==
    /\ 0 \in pending
    /\ pending' = pending \ {0}
    /\ calls' = Min(calls + 1, 2)
    /\ UNCHANGED <<timeoutDuration, initilised, lastCtl, sinceCtl, cancelled, resetBit,
                   turnVars, engineVars, nodeVars>>

CountdownInit ==
    /\ \E d \in 1..MaxDuration : NewCountDown(d)
    /\ EngineIdle
    /\ NodeIdle
    /\ tIn = <<>>
    /\ tOut = <<>>

CountdownNext == Reset \/ StopTimer \/ Tick \/ Fire

\* time passes and a due firing happens
SpecCountdown ==
    CountdownInit /\ [][CountdownNext]_vars /\ WF_vars(Tick) /\ WF_vars(Fire)

\* C11: after a Reset the callback is invoked at most once, and no earlier
\* than timeoutDuration after that Reset, whether or not the Reset cancelled
\* a firing scheduled by an earlier Reset
C11_ResetReschedules ==
    lastCtl = "Reset" =>
        /\ calls <= 1
        /\ calls = 1 => sinceCtl >= timeoutDuration

\* a second Reset came while the first firing was scheduled, and the callback
\* has been invoked for the second one
C11_Witness ==
    lastCtl = "Reset" /\ cancelled /\ calls = 1 /\ sinceCtl >= timeoutDuration

\* C12 as claimed: once the countdown has fired the timer is not initialised
C12_FiredUninitialised == calls > 0 => ~initilised

\* C12: a firing invokes OnTimeoutFn once for a scheduled firing that is due,
\* which is then no longer scheduled, and the timer stays initialised
C12_Firing ==
    [][calls' > calls =>
          /\ 0 \in pending
          /\ pending' = pending \ {0}
          /\ calls' = calls + 1
          /\ initilised /\ initilised']_vars

\* the countdown has fired; nothing is scheduled and the timer is initialised
C12_Witness == calls = 1 /\ pending = {} /\ initilised

\* C13: the timer is initialised exactly when Reset has been called and
\* StopTimer has not been called since
C13_Initilised == initilised <=> lastCtl = "Reset"

\* OnTimeoutFn has been invoked after a second Reset, and the timer is
\* initialised
C13_Witness == lastCtl = "Reset" /\ calls = 1 /\ initilised /\ resetBit = FALSE

\* C14 as claimed: after a Reset the callback is invoked unless StopTimer
\* follows
C14_EventuallyCalled ==
    (lastCtl = "Reset") ~> (calls >= 1 \/ lastCtl = "StopTimer")

\* C14: after a Reset the callback is invoked unless StopTimer or a further
\* Reset follows
C14_EventuallyCalledOrReset ==
    \A b \in BOOLEAN :
        (lastCtl = "Reset" /\ resetBit = b)
            ~> (calls >= 1 \/ lastCtl = "StopTimer" \/ resetBit # b)

\* the callback has been invoked for a Reset
C14_Witness == lastCtl = "Reset" /\ calls >= 1 /\ ~cancelled

\* C15: after StopTimer the timer is not initialised, nothing is scheduled
\* and the callback is not invoked
C15_StopCancels ==
    lastCtl = "StopTimer" => (~initilised /\ pending = {} /\ calls = 0)

\* StopTimer cancelled a scheduled firing, and the time it was due has passed
C15_Witness ==
    /\ lastCtl = "StopTimer" /\ cancelled
    /\ sinceCtl >= timeoutDuration
    /\ calls = 0

-----------------------------------------------------------------------------
(* Properties of the verification of a header *)

\* full verification is asked for and the build is not a test network's
Full(fullVerify) == fullVerify /\ ~env.IsTestnet

\* the header is above the first epoch and has no validator signature
Unsigned(h) == h.number > env.Epoch /\ h.validator = NoValidator

\* VerifyHeader on an offered header by the clock at now: the error
Verdict(h, fullVerify, now) ==
    verifyHeader(chain, env, recents, db, h, <<>>, fullVerify, now).err

\* C16 as claimed: every header whose time is greater than the current time
\* is rejected with FutureBlock
C16_FutureRejectedAlways ==
    \A h \in Candidates, fullVerify \in BOOLEAN, now \in Clocks :
        h.time > now => Verdict(h, fullVerify, now) = "FutureBlock"

\* C16: under full verification a header whose time is greater than the
\* current time is rejected, with NoValidatorSignature when it is above the
\* first epoch and unsigned and with FutureBlock otherwise; without full
\* verification no header is rejected with FutureBlock
C16_FutureRejected ==
    \A h \in Candidates, fullVerify \in BOOLEAN, now \in Clocks :
        \E err \in {Verdict(h, fullVerify, now)} :
            /\ (Full(fullVerify) /\ h.time > now)
                   => err = (IF Unsigned(h) THEN "NoValidatorSignature" ELSE "FutureBlock")
            /\ ~Full(fullVerify) => err # "FutureBlock"

\* above the first epoch a signed header a second ahead of the clock is
\* rejected with FutureBlock under full verification
C16_Witness ==
    /\ Len(chain) > env.Epoch + 1
    /\ \E h \in Candidates, now \in Clocks :
          /\ h.time > now
          /\ ~Unsigned(h)
          /\ Full(TRUE)
          /\ Verdict(h, TRUE, now) = "FutureBlock"

\* the rules of verifyHeader on the fields of one header
Structural(h) ==
    /\ h.number % env.Epoch = 0 =>
          /\ h.coinbase = ZeroAddr
          /\ h.nonce = NonceDropVote
          /\ h.extraLen >= ExtraVanity + ExtraSeal
          /\ (h.extraLen - ExtraVanity - ExtraSeal) % AddressLength = 0
    /\ h.number % env.Epoch # 0 =>
          /\ h.extraLen = ExtraVanity + ExtraSeal
          /\ h.nonce \in {NonceAuthVote, NonceDropVote}
    /\ h.mixDigest = ZeroHash
    /\ h.uncleHash = UncleHash

\* C17: every header that verifyHeader accepts, and so every block of the
\* chain, satisfies the structural rules: a checkpoint has a zero coinbase,
\* the drop-vote nonce and whole addresses between vanity and seal, another
\* block has no signer list and a nonce that is a vote; the mix digest is
\* zero and the uncle hash is that of no uncles
C17_AcceptedStructural ==
    /\ \A h \in Candidates, fullVerify \in BOOLEAN, now \in Clocks :
          Verdict(h, fullVerify, now) = "nil" => Structural(h)
    /\ \A n \in Blocks : Structural(chain[n + 1])

\* a checkpoint and the block after it are in the chain, and of the headers
\* offered next one that breaks a rule is rejected and one is accepted
C17_Witness ==
    /\ Len(chain) > env.Epoch + 1
    /\ \E h \in Candidates, now \in Clocks :
          ~Structural(h) /\ Verdict(h, FALSE, now) = "InvalidMixDigest"
    /\ \E h \in Candidates, now \in Clocks : Verdict(h, TRUE, now) = "nil"

\* the chain has the header's parent: a header under header.ParentHash at
\* the number before the header's
ParentKnown(h) == HasHeader(chain, h.parentHash, h.number - 1)

\* the header's time is at least Period after its parent's
TimeOk(h) == chain[h.number].time + env.Period <= h.time

\* verifyCascadingFields on an offered header: the error
Cascading(h, fullVerify) ==
    verifyCascadingFields(chain, env, recents, db, h, <<>>, fullVerify).err

\* C18: verifyCascadingFields, and so verifyHeader, accepts an offered header
\* only if its parent is known and parent.time + Period <= header.time; with
\* no header under the parent hash at number - 1 the error is UnknownAncestor,
\* with a known parent and an earlier time it is InvalidTimestamp; the times
\* of the blocks of the chain grow by at least Period per block
C18_ParentAndTime ==
    /\ \A h \in Candidates, fullVerify \in BOOLEAN :
          \E err \in {Cascading(h, fullVerify)} :
              /\ err = "nil" => (ParentKnown(h) /\ TimeOk(h))
              /\ ~ParentKnown(h) => err = "UnknownAncestor"
              /\ (ParentKnown(h) /\ ~TimeOk(h)) => err = "InvalidTimestamp"
    /\ \A h \in Candidates, fullVerify \in BOOLEAN, now \in Clocks :
          Verdict(h, fullVerify, now) = "nil" => (ParentKnown(h) /\ TimeOk(h))
    /\ \A n \in Blocks :
          /\ chain[n + 1].parentHash = Hash(chain[n])
          /\ chain[n].time + env.Period <= chain[n + 1].time

\* the chain has two blocks after genesis, and of the headers offered next
\* one names the genesis block as its parent and fails with UnknownAncestor,
\* one is too early and fails with InvalidTimestamp, and one is accepted
C18_Witness ==
    /\ Len(chain) > 2
    /\ \E h \in Candidates :
          /\ h.parentHash = Hash(chain[1])
          /\ Verdict(h, TRUE, h.time) = "UnknownAncestor"
    /\ \E h \in Candidates :
          /\ ParentKnown(h) /\ ~TimeOk(h)
          /\ Verdict(h, TRUE, h.time) = "InvalidTimestamp"
    /\ \E h \in Candidates : Verdict(h, TRUE, h.time) = "nil"

-----------------------------------------------------------------------------
(* Properties of the verification of a checkpoint header *)

\* the snapshot at the parent of an offered header
ParentSnapshot(h) == snapshot(chain, env, recents, db, h.number - 1, h.parentHash, <<>>)

\* verification of the offered header h by the clock at now gets as far as
\* checkSignersOnCheckpoint: h is a checkpoint header that passes the checks
\* on its own fields, on its parent and on its time, and the snapshot at its
\* parent is there
ReachesSignerCheck(h, fullVerify, now) ==
    /\ h.number % env.Epoch = 0
    /\ verifyStandalone(env, h, fullVerify, now) = "nil"
    /\ ParentKnown(h) /\ TimeOk(h)
    /\ ParentSnapshot(h).err = "nil"

\* the penalties of the checkpoint as the hook gives them for signers; none
\* without a hook
CurrentPenalties(h, signers) ==
    IF env.penaltyHooks THEN penaltyHook(env, h, signers).penalties ELSE {}

\* the signers after removing the penalties of the checkpoint and those in
\* the checkpoint headers of the epochs before
Derived(h, signers) ==
    removePenalties(chain, env, RemoveItemFromArray(signers, CurrentPenalties(h, signers)),
                    h.number, LimitPenaltyEpoch)

\* the list in the header is the one derived from the parent snapshot
MatchesSnapshot(h) ==
    CompareSignersLists(h.extraSigners, Derived(h, GetSigners(ParentSnapshot(h).snap)))

\* the list in the header is the one derived from the contract's signers
MatchesContract(h) ==
    CompareSignersLists(h.extraSigners, Derived(h, env.contract))

\* C19 as claimed: every accepted checkpoint header carries the signers
\* derived from the parent snapshot or those derived from the contract
C19_CheckpointSignersAlways ==
    \A h \in Candidates, fullVerify \in BOOLEAN, now \in Clocks :
        (ReachesSignerCheck(h, fullVerify, now) /\ Verdict(h, fullVerify, now) = "nil")
            => (MatchesSnapshot(h) \/ MatchesContract(h))

\* C19: every accepted checkpoint header other than block
\* IgnoreSignerCheckBlock carries the signers derived from the parent
\* snapshot or, the contract answering, those derived from the contract; one
\* that carries neither is rejected, with InvalidCheckpointSigners when the
\* contract answers, the penalty hook does not fail on the contract's signers
\* and the header's penalties are the hook's
C19_CheckpointSigners ==
    \A h \in Candidates, fullVerify \in BOOLEAN, now \in Clocks :
        (ReachesSignerCheck(h, fullVerify, now) /\ h.number # env.IgnoreSignerCheckBlock)
            => \E err \in {Verdict(h, fullVerify, now)} :
                  /\ err = "nil" =>
                        \/ MatchesSnapshot(h)
                        \/ env.HookGetSignersFromContract.err = "nil" /\ MatchesContract(h)
                  /\ (/\ ~MatchesSnapshot(h) /\ ~MatchesContract(h)
                      /\ env.HookGetSignersFromContract.err = "nil"
                      /\ env.penaltyHooks =>
                             /\ penaltyHook(env, h, env.contract).err = "nil"
                             /\ h.penalties = penaltyHook(env, h, env.contract).penalties)
                        => err = "InvalidCheckpointSigners"

\* the tip is a checkpoint, not block IgnoreSignerCheckBlock, that was
\* accepted with the contract's list, which names other signers than the
\* genesis block does
C19_Witness ==
    /\ Tip.number > 0
    /\ Tip.number % env.Epoch = 0
    /\ Tip.number # env.IgnoreSignerCheckBlock
    /\ Tip.extraSigners = env.contract
    /\ Range(env.contract) # Range(env.genesis)

\* checkSignersOnCheckpoint on the offered header with the signers of the
\* parent snapshot, and with the contract's
FirstCheck(h) == checkSignersOnCheckpoint(chain, env, h, GetSigners(ParentSnapshot(h).snap))
SecondCheck(h) == checkSignersOnCheckpoint(chain, env, h, env.contract)

\* the errors of the hooks of the deployment
HookErrors ==
    {env.HookPenalty.err, env.HookPenaltyTIPSigning.err, env.HookVerifyMNs.err,
     env.HookGetSignersFromContract.err} \ {"nil"}

\* C20 as claimed: when a hook fails in the verification of a checkpoint
\* header the error returned is that hook's error, and when the penalties
\* mismatch it is InvalidCheckpointPenalties
C20_HookErrorVerbatim ==
    \A h \in Candidates, fullVerify \in BOOLEAN, now \in Clocks :
        ReachesSignerCheck(h, fullVerify, now)
            => \E err \in {Verdict(h, fullVerify, now)} :
                  /\ FirstCheck(h) \in HookErrors => err = FirstCheck(h)
                  /\ (FirstCheck(h) # "nil" /\ env.HookGetSignersFromContract.err # "nil")
                        => err = env.HookGetSignersFromContract.err
                  /\ FirstCheck(h) = "InvalidCheckpointPenalties"
                        => err = "InvalidCheckpointPenalties"

\* C20: when the check against the signers of the parent snapshot fails, the
\* error of a failing HookGetSignersFromContract is returned inside the
\* message "Can't get signers from Smart Contract . Err: "; when the
\* contract answers, a failure of the penalty hook or of HookVerifyMNs in the
\* check against the contract's signers is returned unchanged and a mismatch
\* of the penalties there is InvalidCheckpointPenalties; no error of the
\* check against the snapshot's signers is returned as such
C20_HookErrors ==
    \A h \in Candidates, fullVerify \in BOOLEAN, now \in Clocks :
        (ReachesSignerCheck(h, fullVerify, now) /\ FirstCheck(h) # "nil")
            => \E err \in {Verdict(h, fullVerify, now)} :
                  IF env.HookGetSignersFromContract.err # "nil"
                  THEN /\ err = "Can't get signers from Smart Contract . Err: "
                                    \o env.HookGetSignersFromContract.err
                       /\ err \notin HookErrors
                  ELSE /\ (env.penaltyHooks /\ penaltyHook(env, h, env.contract).err # "nil")
                             => err = penaltyHook(env, h, env.contract).err
                       /\ (/\ env.penaltyHooks
                           /\ penaltyHook(env, h, env.contract).err = "nil"
                           /\ h.penalties # penaltyHook(env, h, env.contract).penalties)
                             => err = "InvalidCheckpointPenalties"
                       /\ (/\ env.HookVerifyMNs.err # "nil"
                           /\ SecondCheck(h) = env.HookVerifyMNs.err)
                             => err = env.HookVerifyMNs.err
                       /\ err \in HookErrors \cup {"InvalidCheckpointPenalties"}
                             => err = SecondCheck(h)

\* a checkpoint is offered on a network whose HookPenalty fails, and the
\* verdict on a header is the hook's error
C20_Witness ==
    /\ Len(chain) % env.Epoch = 0
    /\ env.penaltyHooks
    /\ env.HookPenalty.err # "nil"
    /\ \E h \in Candidates, now \in Clocks : Verdict(h, FALSE, now) = env.HookPenalty.err


-----------------------------------------------------------------------------
(* Seal *)

\* two masternodes that both produce blocks and are their own validators; the
\* node holds the key of A or of D, which is no masternode
SealNet ==
    [Epoch |-> 3, Gap |-> 1, IsTestnet |-> FALSE, genesis |-> <<"A", "B">>,
     creators |-> {"A", "B"}, votes |-> {<<ZeroAddr, NonceDropVote>>},
     lists |-> {<<"A", "B">>}, cosigners |-> {NoValidator},
     ms |-> {{"A", "B"}}, contract |-> <<"A", "B">>, shift |-> 0,
     offDifficulty |-> {0}, accounts |-> {"A", "D"}] @@ Plain

\* the same with blocks on demand (Period 0) and the other masternode as validator
ZeroPeriodNet == [Period |-> 0, shift |-> 1, accounts |-> {"A"}] @@ SealNet

\* Seal returns no block
NoBlock == <<>>

\* the blocks the miner hands to Seal: the genesis block, or a prepared
\* block on the tip or on an unknown parent, with or without transactions;
\* a checkpoint block also as Prepare leaves it without a HookValidator,
\* with no validator numbers
SealBlocks ==
    {[header |-> h, txs |-> txs] :
        h \in {chain[1]}
              \cup {[c EXCEPT !.creator = ZeroAddr] : c \in Candidates}
              \cup {[c EXCEPT !.creator = ZeroAddr, !.parentHash = <<"unknown">>] :
                       c \in Candidates}
              \cup {[c EXCEPT !.creator = ZeroAddr, !.validators = <<>>] :
                       c \in {k \in Candidates : k.number % env.Epoch = 0}},
        txs \in IF env.Period = 0 THEN BOOLEAN ELSE {TRUE}}

\* a Seal that waits for nobody
SealNeverWaits(e, snap, masternodes, sgn, number) == FALSE

\* the recency rule of Seal sparing a list of two masternodes
SealMustWaitAboveTwo(e, snap, masternodes, sgn, number) ==
    /\ Len(masternodes) > 2
    /\ \E seen \in DOMAIN snap.recents :
          /\ snap.recents[seen] = sgn
          /\ (number < 2 \/ seen > number - 2)
          /\ number % e.Epoch # 0

\* the recency rule of Seal: the signer is among the recent signers and the
\* block does not shift it out
SealMustWait(e, snap, masternodes, sgn, number) ==
    /\ Len(masternodes) > 1
    /\ \E seen \in DOMAIN snap.recents :
          /\ snap.recents[seen] = sgn
          /\ (number < 2 \/ seen > number - 2)
          /\ number % e.Epoch # 0

\* the checks of Seal without the one on who the signer is
sealChecksAnySigner(ch, e, rec, d, b, sgn) ==
    IF b.header.number = 0
    THEN [pc |-> "returned", err |-> "UnknownBlock", recents |-> rec, db |-> d]
    ELSE IF e.Period = 0 /\ ~b.txs /\ b.header.number % e.Epoch # 0
    THEN [pc |-> "returned", err |-> "WaitTransactions", recents |-> rec, db |-> d]
    ELSE
    Let(snapshot(ch, e, rec, d, b.header.number - 1, b.header.parentHash, <<>>), LAMBDA s :
    IF s.err # "nil"
    THEN [pc |-> "returned", err |-> s.err, recents |-> s.recents, db |-> s.db]
    ELSE IF SealMustWait(e, s.snap, GetMasternodes(ch, e, b.header), sgn, b.header.number)
    THEN [pc |-> "wait", err |-> "nil", recents |-> s.recents, db |-> s.db]
    ELSE [pc |-> "select", err |-> "nil", recents |-> s.recents, db |-> s.db])

\* Seal up to the point where it looks at the stop channel: where the call
\* stands then ("returned" with the error, "wait" on the stop channel, or at
\* the "select"), and the snapshot caches as it leaves them
sealChecks(ch, e, rec, d, b, sgn) ==
    IF b.header.number = 0
    THEN [pc |-> "returned", err |-> "UnknownBlock", recents |-> rec, db |-> d]
    ELSE IF e.Period = 0 /\ ~b.txs /\ b.header.number % e.Epoch # 0
    THEN [pc |-> "returned", err |-> "WaitTransactions", recents |-> rec, db |-> d]
    ELSE
    Let(snapshot(ch, e, rec, d, b.header.number - 1, b.header.parentHash, <<>>), LAMBDA s :
    IF s.err # "nil"
    THEN [pc |-> "returned", err |-> s.err, recents |-> s.recents, db |-> s.db]
    ELSE IF /\ sgn \notin s.snap.signers
            /\ sgn \notin Range(GetMasternodes(ch, e, b.header))
    THEN [pc |-> "returned", err |-> "Unauthorized", recents |-> s.recents, db |-> s.db]
    ELSE IF SealMustWait(e, s.snap, GetMasternodes(ch, e, b.header), sgn, b.header.number)
    THEN [pc |-> "wait", err |-> "nil", recents |-> s.recents, db |-> s.db]
    ELSE [pc |-> "select", err |-> "nil", recents |-> s.recents, db |-> s.db])

\* the select of Seal that never takes the stop case
selectStopNever(stopped) == "sign"

\* the select on the stop channel with a default case: where Seal goes
selectStop(stopped) == IF stopped THEN "returned" ELSE "sign"

\* Seal from the call of signFn on: the block and the error it returns
sealSign(ch, e, b, sgn, fn) ==
    IF fn # "sign"
    THEN [block |-> NoBlock, err |-> IF fn = "nil" THEN "nil signFn" ELSE fn]
    ELSE Let(GetValidator(ch, e, sgn, [b.header EXCEPT !.creator = sgn]), LAMBDA m2 :
    IF m2.err # "nil"
    THEN [block |-> NoBlock, err |-> "can't get block validator: " \o m2.err]
    ELSE [block |-> [b.header EXCEPT !.creator = sgn,
                                      !.validator = IF m2.validator = sgn THEN sgn ELSE @],
          err |-> "nil"])

\* the signer of the seal in header.Extra as Seal leaves it: copy() writes
\* the signature there as soon as signFn returned one
sealExtra(b, sgn, fn, signed) == IF signed /\ fn = "sign" THEN sgn ELSE b.header.creator

\* Authorize(signer, signFn): the whole call, under the lock
Authorize ==
    /\ \E sgn \in env.accounts, fn \in {"sign", "ErrLocked"} :
          /\ c_signer' = sgn
          /\ c_signFn' = fn
    /\ UNCHANGED <<engineVars, sealVars, besideSeal>>

\* the stop channel is closed
Stop ==
    /\ ~stop
    /\ stop' = TRUE
    /\ UNCHANGED <<seal, engineVars, signerVars, besideSeal>>

\* Seal(chain, block, stop) is called and runs until it returns an error or
\* is about to look at the stop channel
SealBegin ==
    /\ seal.pc = "idle"
    /\ \E b \in SealBlocks :
          \E r \in {sealChecks(chain, env, recents, db, b, c_signer)} :
              /\ seal' = [pc |-> r.pc, block |-> b, signer |-> c_signer,
                          signFn |-> c_signFn, at |-> "checks",
                          out |-> [block |-> NoBlock, err |-> r.err],
                          signed |-> FALSE, stopAtCall |-> stop, stopAtCheck |-> FALSE,
                          stopAtSign |-> FALSE, stopAtReturn |-> stop]
              /\ recents' = r.recents
              /\ db' = r.db
    /\ UNCHANGED <<env, chain, nUpdates, stop, signerVars, besideSeal>>

\* the recency-barred Seal receives from the stop channel and returns
SealWait ==
    /\ seal.pc = "wait"
    /\ stop
    /\ seal' = [seal EXCEPT !.pc = "returned", !.at = "wait", !.stopAtCheck = TRUE,
                            !.stopAtReturn = TRUE]
    /\ UNCHANGED <<stop, engineVars, signerVars, besideSeal>>

\* Seal looks at the stop channel without waiting
SealSelect ==
    /\ seal.pc = "select"
    /\ seal' = [seal EXCEPT !.pc = selectStop(stop), !.at = "select",
                            !.stopAtCheck = stop, !.stopAtReturn = stop]
    /\ UNCHANGED <<stop, engineVars, signerVars, besideSeal>>

\* Seal calls signFn, fills in the header and returns
SealSign ==
    /\ seal.pc = "sign"
    /\ seal' = [seal EXCEPT !.pc = "returned", !.at = "sign", !.signed = TRUE,
                            !.out = sealSign(chain, env, seal.block, seal.signer,
                                             seal.signFn),
                            !.stopAtSign = stop, !.stopAtReturn = stop]
    /\ UNCHANGED <<stop, engineVars, signerVars, besideSeal>>

\* the miner takes the result; the next call gets a new stop channel
SealEnd ==
    /\ seal.pc = "returned"
    /\ seal' = [pc |-> "idle"]
    /\ stop' = FALSE
    /\ UNCHANGED <<engineVars, signerVars, besideSeal>>

InitSeal ==
    /\ EngineStart({SealNet, ZeroPeriodNet})
    /\ NoSigner
    /\ SealIdle
    /\ BatchIdle
    /\ LockIdle
    /\ V2Idle

NextSeal ==
    \/ ImportHeader
    \/ Authorize
    \/ Stop
    \/ SealBegin
    \/ SealWait
    \/ SealSelect
    \/ SealSign
    \/ SealEnd

SpecSeal == InitSeal /\ [][NextSeal]_vars


\* the errors of the checks that Seal makes before it looks at the stop channel
EarlyErrors == {"UnknownBlock", "WaitTransactions", "UnknownAncestor", "Unauthorized"}

\* the stop channel was closed before the signature was made or, when none
\* was made, before Seal returned
StoppedBeforeSignature ==
    IF seal.signed THEN seal.stopAtSign ELSE seal.stopAtReturn

\* C21 as stated: whenever the stop signal was given before Seal emitted the
\* signature, Seal returned no block and no error and has not invoked signFn
C21_StopAlwaysNil ==
    seal.pc = "returned" /\ StoppedBeforeSignature =>
        /\ seal.out = [block |-> NoBlock, err |-> "nil"]
        /\ ~seal.signed

\* C21: a Seal that finds the stop channel closed when it looks at it (in
\* the select, or waiting because the signer is recency-barred) returns no
\* block and no error and does not invoke signFn; a call that started after
\* the stop signal never signs and returns no block, with no error or with
\* the error of a check made before the select; a call that signed found
\* the channel open in the select
C21_StopAtCheck ==
    seal.pc = "returned" =>
        /\ seal.stopAtCheck =>
              /\ seal.out = [block |-> NoBlock, err |-> "nil"]
              /\ ~seal.signed
        /\ seal.stopAtCall =>
              /\ ~seal.signed
              /\ seal.out.block = NoBlock
              /\ seal.out.err \in {"nil"} \cup EarlyErrors
              /\ seal.out.err = "nil" <=> seal.stopAtCheck
        /\ seal.signed => seal.at = "sign" /\ ~seal.stopAtCheck

\* an authorized signer that is not barred finds the stop channel closed in
\* the select and returns
C21_Witness ==
    /\ seal.pc = "returned"
    /\ seal.at = "select"
    /\ seal.stopAtCheck
    /\ seal.signer \in Range(env.genesis)


-----------------------------------------------------------------------------
(* VerifyHeaders *)

\* the headers of one VerifyHeaders call
MaxBatch == 3

\* two masternodes that both produce blocks, every second block a checkpoint
\* or every block
BatchNet ==
    [Epoch |-> 2, Gap |-> 1, IsTestnet |-> FALSE, genesis |-> <<"A", "B">>,
     creators |-> {"A", "B"}, votes |-> {<<ZeroAddr, NonceDropVote>>},
     lists |-> {<<"A", "B">>}, cosigners |-> {NoValidator},
     ms |-> {{"A", "B"}}, contract |-> <<"A", "B">>, shift |-> 1,
     offDifficulty |-> {0}] @@ Plain

EveryBatchNet == [Epoch |-> 1, Gap |-> 0] @@ BatchNet

\* the headers that may follow the headers of ch in the slice given to
\* VerifyHeaders: built on the last of them by one of the producers with the
\* difficulty of its turn
BatchHeaders(ch) ==
    UNION {Let(calcDifficultyAt(ch, env, <<>>, <<>>, ch[Len(ch)], c).difficulty,
               LAMBDA difficulty :
        {[number |-> Len(ch), parentHash |-> Hash(ch[Len(ch)]), creator |-> c,
          coinbase |-> ZeroAddr, nonce |-> NonceDropVote,
          difficulty |-> difficulty,
          extraSigners |-> l,
          validator |-> NoValidator,
          validators |-> [i \in 1..Len(l) |-> i - 1 + env.shift],
          penalties |-> {},
          time |-> ch[Len(ch)].time + env.Period,
          extraLen |-> ExtraLen(l, 0),
          mixDigest |-> ZeroHash,
          uncleHash |-> UncleHash] :
            l \in IF Len(ch) % env.Epoch = 0 THEN env.lists ELSE {<<>>}}) :
           c \in env.creators}

\* verifyHeaderWithCache(chain, header, parents, fullVerify): the error, the
\* snapshot caches and the verified headers as the call leaves them
verifyHeaderWithCache(ch, e, rec, d, verified, h, parents, fullVerify, now) ==
    IF Hash(h) \in verified
    THEN [err |-> "nil", recents |-> rec, db |-> d, verified |-> verified]
    ELSE Let(verifyHeader(ch, e, rec, d, h, parents, fullVerify, now), LAMBDA r :
             [err |-> r.err, recents |-> r.recents, db |-> r.db,
              verified |-> IF r.err = "nil" THEN verified \cup {Hash(h)} ELSE verified])

\* the parent batch that leaves the headers of the slice out
parentsNone(headers, i) == <<>>

\* headers[:i], the parent batch of headers[i] (i counts from 0)
parentsOf(headers, i) == SubSeq(headers, 1, i)

\* the select of the goroutine: the cases that can proceed, one of which is
\* chosen. The results channel has room for every header, so the send can
\* always proceed; the receive can once abort is closed
selectCases(aborted) == IF aborted THEN {"abort", "send"} ELSE {"send"}

\* VerifyHeaders(chain, headers, fullVerifies) with a slice of n headers
\* returns the two channels and starts the goroutine. Of the slice the model
\* shows headers[:i + 1] when the goroutine is at headers[i]
VerifyHeaders ==
    /\ verifier.pc = "idle"
    /\ \E n \in 1..Min(MaxBatch, MaxNumber + 1 - Len(chain)) :
          verifier' = [pc |-> "running", n |-> n, headers |-> <<>>, fullVerifies |-> <<>>,
                       recents |-> recents, db |-> db,
                       verified |-> verifiedHeaders, sentAfterAbort |-> FALSE]
    /\ abort' = FALSE
    /\ results' = <<>>
    /\ UNCHANGED <<verifiedHeaders, engineVars, besideBatch>>

\* one round of the goroutine's loop: it verifies headers[i] by a clock at
\* the header's time, then sends the error on results or receives from abort
\* and returns; a panic in the verification ends the process
VerifyNext ==
    /\ verifier.pc = "running"
    /\ \E h \in BatchHeaders(chain \o verifier.headers), fullVerify \in BOOLEAN :
          \E r \in {verifyHeaderWithCache(chain, env, recents, db, verifiedHeaders, h,
                        parentsOf(verifier.headers, Len(verifier.headers)),
                        fullVerify, h.time)} :
              /\ recents' = r.recents
              /\ db' = r.db
              /\ verifiedHeaders' = r.verified
              /\ \E case \in IF r.err = Panic THEN {"panic"} ELSE selectCases(abort) :
                    /\ results' = IF case = "send" THEN Append(results, r.err) ELSE results
                    /\ verifier' =
                          [verifier EXCEPT
                              !.headers = Append(@, h),
                              !.fullVerifies = Append(@, fullVerify),
                              !.sentAfterAbort = @ \/ (abort /\ case = "send"),
                              !.pc = IF case = "panic" THEN "panicked"
                                     ELSE IF case = "abort" THEN "aborted"
                                     ELSE IF Len(verifier.headers) + 1 = verifier.n
                                     THEN "done" ELSE "running"]
    /\ UNCHANGED <<env, chain, nUpdates, abort, besideBatch>>

\* the caller closes the abort channel
Abort ==
    /\ verifier.pc # "idle"
    /\ ~abort
    /\ abort' = TRUE
    /\ UNCHANGED <<verifiedHeaders, results, verifier, engineVars, besideBatch>>

\* the number of results before the first error
RECURSIVE Accepted(_)
Accepted(errs) ==
    IF errs = <<>> \/ errs[1] # "nil" THEN 0 ELSE 1 + Accepted(Tail(errs))

\* the goroutine has returned; the caller inserts the headers it got no
\* error for, up to the first error
BatchEnd ==
    /\ verifier.pc \in {"done", "aborted"}
    /\ chain' = chain \o SubSeq(verifier.headers, 1, Accepted(results))
    /\ verifier' = [pc |-> "idle"]
    /\ abort' = FALSE
    /\ results' = <<>>
    /\ UNCHANGED <<env, recents, db, nUpdates, verifiedHeaders, besideBatch>>

InitBatch ==
    /\ EngineStart({BatchNet, EveryBatchNet})
    /\ NodeIdle

NextBatch == VerifyHeaders \/ VerifyNext \/ Abort \/ BatchEnd

SpecBatch == InitBatch /\ [][NextBatch]_vars


\* the engine after the goroutine has verified the first k headers of the
\* slice, each with the headers before it as its parents, and the errors
\* that gave
RECURSIVE batchState(_)
batchState(k) ==
    IF k = 0
    THEN [recents |-> verifier.recents, db |-> verifier.db,
          verified |-> verifier.verified, errs |-> <<>>]
    ELSE Let(batchState(k - 1), LAMBDA st :
         Let(verifyHeaderWithCache(chain, env, st.recents, st.db, st.verified,
                                   verifier.headers[k], SubSeq(verifier.headers, 1, k - 1),
                                   verifier.fullVerifies[k], verifier.headers[k].time),
             LAMBDA r :
             [recents |-> r.recents, db |-> r.db, verified |-> r.verified,
              errs |-> Append(st.errs, r.err)]))

\* the results channel holds, in the order of the slice, the verification of
\* headers[i] with headers[:i] as parents, of no more headers than the
\* goroutine has reached and of every header when it has finished the slice
InOrder ==
    /\ Len(results) <= Len(verifier.headers)
    /\ Len(verifier.headers) <= verifier.n
    /\ results = SubSeq(batchState(Len(results)).errs, 1, Len(results))
    /\ verifier.pc = "done" => Len(results) = verifier.n

-----------------------------------------------------------------------------
(* The signer fields and c.lock *)

\* what each method does with c.lock and the signer fields, in program order
AuthorizeSteps == <<"Lock", "WriteSigner", "WriteSignFn", "Unlock">>

SealSteps == <<"RLock", "ReadSigner", "ReadSignFn", "RUnlock">>

\* Prepare of a block that is no checkpoint: the lock is held while the
\* proposals are read; calcDifficulty is given c.signer afterwards and
\* YourTurn compares with c.signer
PrepareSteps == <<"RLock", "RUnlock", "ReadSigner", "ReadSigner">>

\* Prepare of a checkpoint block
PrepareCheckpointSteps == <<"ReadSigner", "ReadSigner">>

SignerSteps == <<"ReadSigner">>

\* CalcDifficulty gives c.signer to calcDifficulty, whose YourTurn compares
\* with c.signer
CalcDifficultySteps == <<"ReadSigner", "ReadSigner">>

YourTurnSteps == <<"ReadSigner">>

Programs ==
    [Authorize |-> AuthorizeSteps, Seal |-> SealSteps, Prepare |-> PrepareSteps,
     PrepareCheckpoint |-> PrepareCheckpointSteps, Signer |-> SignerSteps,
     CalcDifficulty |-> CalcDifficultySteps, YourTurn |-> YourTurnSteps]

\* the accounts Authorize is called with, each with its signing function
Credentials ==
    {[signer |-> "A", signFn |-> "signFn of A"], [signer |-> "B", signFn |-> "signFn of B"]}

\* what each testing tool of the v2 engine does with x.lock and the fields of
\* the engine, in program order
SetNewRoundFakerSteps == <<"Lock", "WriteRound", "Unlock">>

\* processQC writes the certificates and the committed block, then the round
ProcessQCFakerSteps == <<"Lock", "ProcessQCCerts", "ProcessQCRound", "Unlock">>

GetCurrentRoundFakerSteps == <<"RLock", "ReadRound", "RUnlock">>

GetPropertiesFakerSteps ==
    <<"RLock", "ReadRound", "ReadLockQC", "ReadHighestQC", "ReadHighestTC", "ReadVotedRound",
      "ReadCommitBlock", "RUnlock">>

SetPropertiesFakerSteps == <<"WriteHighestQC", "WriteHighestTC">>

V2Programs ==
    [SetNewRoundFaker |-> SetNewRoundFakerSteps, ProcessQCFaker |-> ProcessQCFakerSteps,
     GetCurrentRoundFaker |-> GetCurrentRoundFakerSteps,
     GetPropertiesFaker |-> GetPropertiesFakerSteps,
     SetPropertiesFaker |-> SetPropertiesFakerSteps]

\* the program of a method, of either engine
ProgramOf(op) == IF op \in DOMAIN V2Programs THEN V2Programs[op] ELSE Programs[op]

\* the instruction goroutine t executes next; "none" outside a method
NextStep(t) ==
    IF threads[t].op = "none" \/ threads[t].pc > Len(ProgramOf(threads[t].op)) THEN "none"
    ELSE ProgramOf(threads[t].op)[threads[t].pc]

\* goroutine t holds c.lock, for reading or for writing
HoldsLock(t) == lock.writer = t \/ t \in lock.readers

Advance(t) == [threads EXCEPT ![t].pc = @ + 1]

\* what a read of field (by goroutine t) may give: the value of the field;
\* when the write of another goroutine is not ordered with the read (a data
\* race) also the value being written or a mix of the two
ReadValues(t, field, current) ==
    {current}
    \cup UNION {{threads[u].arg[field], "torn"} :
                   u \in {u \in Threads \ {t} :
                             /\ ~HoldsLock(t)
                             /\ threads[u].op = "Authorize"
                             /\ NextStep(u) \in {"WriteSigner", "WriteSignFn", "Unlock"}}}

\* a goroutine calls one of the methods; Authorize gets the credentials
ThreadCall ==
    /\ \E t \in Threads, op \in DOMAIN Programs, arg \in Credentials :
          /\ threads[t].op = "none"
          /\ threads' = [threads EXCEPT ![t] = [op |-> op, pc |-> 1, arg |-> arg,
                                                seen |-> <<>>]]
    /\ UNCHANGED <<lock, signerVars, besideLock>>

\* c.lock.Lock(): waits until no goroutine holds the lock
AcquireLock ==
    /\ \E t \in Threads :
          /\ NextStep(t) = "Lock"
          /\ lock.writer = "none" /\ lock.readers = {}
          /\ lock' = [lock EXCEPT !.writer = t]
          /\ threads' = Advance(t)
    /\ UNCHANGED <<signerVars, besideLock>>

\* c.lock.Unlock()
ReleaseLock ==
    /\ \E t \in Threads :
          /\ NextStep(t) = "Unlock"
          /\ lock' = [lock EXCEPT !.writer = "none"]
          /\ threads' = Advance(t)
    /\ UNCHANGED <<signerVars, besideLock>>

\* c.lock.RLock(): waits until no goroutine holds the lock for writing
AcquireRLock ==
    /\ \E t \in Threads :
          /\ NextStep(t) = "RLock"
          /\ lock.writer = "none"
          /\ lock' = [lock EXCEPT !.readers = @ \cup {t}]
          /\ threads' = Advance(t)
    /\ UNCHANGED <<signerVars, besideLock>>

\* c.lock.RUnlock()
ReleaseRLock ==
    /\ \E t \in Threads :
          /\ NextStep(t) = "RUnlock"
          /\ lock' = [lock EXCEPT !.readers = @ \ {t}]
          /\ threads' = Advance(t)
    /\ UNCHANGED <<signerVars, besideLock>>

\* c.signer = signer; c.signFn = signFn
WriteField ==
    /\ \E t \in Threads :
          /\ NextStep(t) \in {"WriteSigner", "WriteSignFn"}
          /\ c_signer' = IF NextStep(t) = "WriteSigner" THEN threads[t].arg.signer
                         ELSE c_signer
          /\ c_signFn' = IF NextStep(t) = "WriteSignFn" THEN threads[t].arg.signFn
                         ELSE c_signFn
          /\ threads' = Advance(t)
    /\ UNCHANGED <<lock, besideLock>>

\* a read of c.signer or c.signFn
ReadField ==
    /\ \E t \in Threads :
          /\ NextStep(t) \in {"ReadSigner", "ReadSignFn"}
          /\ \E v \in IF NextStep(t) = "ReadSigner"
                      THEN ReadValues(t, "signer", c_signer)
                      ELSE ReadValues(t, "signFn", c_signFn) :
                threads' = [threads EXCEPT ![t].pc = @ + 1, ![t].seen = Append(@, v)]
    /\ UNCHANGED <<lock, signerVars, besideLock>>

\* the method returns
ThreadReturn ==
    /\ \E t \in Threads :
          /\ threads[t].op # "none"
          /\ NextStep(t) = "none"
          /\ threads' = [threads EXCEPT ![t] = [op |-> "none", pc |-> 1]]
    /\ UNCHANGED <<lock, signerVars, besideLock>>

InitLock ==
    /\ EngineIdle
    /\ CountdownIdle
    /\ tIn = <<>>
    /\ tOut = <<>>
    /\ NodeIdle

NextLock ==
    \/ ThreadCall
    \/ AcquireLock
    \/ ReleaseLock
    \/ AcquireRLock
    \/ ReleaseRLock
    \/ WriteField
    \/ ReadField
    \/ ThreadReturn

SpecLock == InitLock /\ [][NextLock]_vars

\* goroutine u is between the first and the last instruction of a write of
\* the signer fields
Writing(u) ==
    threads[u].op = "Authorize" /\ NextStep(u) \in {"WriteSigner", "WriteSignFn", "Unlock"}

\* C23 as stated: every read and every write of c.signer and c.signFn
\* happens while the goroutine holds c.lock, the write exclusively, so no
\* read happens between the instructions of a concurrent Authorize
C23_SignerFieldsLocked ==
    \A t \in Threads :
        /\ NextStep(t) \in {"WriteSigner", "WriteSignFn"} => lock.writer = t
        /\ NextStep(t) \in {"ReadSigner", "ReadSignFn"} =>
              /\ HoldsLock(t)
              /\ \A u \in Threads \ {t} : ~Writing(u)


-----------------------------------------------------------------------------
(* The v2 engine: rounds, certificates and the pools *)

\* the highest round a block is proposed in
MaxRound == 3

\* calls of the testing tools in one run
MaxFakes == 1

\* HYGIENE_WINDOW: how many rounds before the current one the pools keep
HygieneWindow == 0

\* the masternodes of the epoch, the first of them the local node
V2Masternodes == <<"A", "B", "C">>

\* threshold(epoch): the signatures a certificate needs, two thirds of the
\* masternodes
CertThreshold == (2 * Len(V2Masternodes) + 2) \div 3

\* the block whose ancestors and itself are of the rounds in S, ascending
BlockOfRounds(S) ==
    [i \in 1..Cardinality(S) |-> CHOOSE r \in S : Cardinality({q \in S : q < r}) = i - 1]

\* every block that can be proposed: the rounds of its ancestors and its own,
\* ascending; blocks of equal rounds are equal, a fork shares a prefix
V2Blocks == {BlockOfRounds(S) : S \in SUBSET (1..MaxRound)}

\* BlockInfo of a block: its round, its number and its parent
Round(b) == IF b = GenesisBlock THEN 0 ELSE b[Len(b)]

Number(b) == Len(b)

Parent(b) == SubSeq(b, 1, Len(b) - 1)

\* the signers votes arrive from: the other masternodes and an account that
\* is no masternode
VoteSigners == (Range(V2Masternodes) \ {V2Masternodes[1]}) \cup {"Z"}

\* the rounds votes arrive for: the current one
VoteRounds == {engineV2.currentRound}

\* b is a, or a descendant of a
Extends(b, a) == Len(a) <= Len(b) /\ SubSeq(b, 1, Len(a)) = a

Max(a, b) == IF a >= b THEN a ELSE b

\* the leader of a round proposes one block: the votes the pool holds for
\* the round of b are votes for b
OneBlockVotedFor(b) == \A m \in votePool : m.round = Round(b) => m.key = b

\* size(msg): the messages held under a key, one for each signer
PoolSize(pool, key) == Cardinality({m \in pool : m.key = key})

\* add(msg) that reports the threshold on every call at or above it
poolAddAtOrAbove(pool, msg) ==
    [pool |-> pool \cup {msg},
     reached |-> PoolSize(pool \cup {msg}, msg.key) >= CertThreshold]

\* add(msg): the pool with the message under its key, a message of the same
\* signer counted once, and whether this insertion made the size of the key
\* cross the threshold
poolAdd(pool, msg) ==
    [pool |-> pool \cup {msg},
     reached |-> msg \notin pool /\ PoolSize(pool \cup {msg}, msg.key) = CertThreshold]

\* hygiene(current_round): without the keys of rounds older than
\* current_round - HYGIENE_WINDOW
poolHygiene(pool, currentRound) ==
    {m \in pool : m.round >= currentRound - HygieneWindow}

\* a vote for a block and a timeout of a round, by a signer; the pool key of
\* a vote names the block, that of a timeout the round
Vote(b, sgn) == [type |-> "vote", key |-> b, round |-> Round(b), signer |-> sgn]

Timeout(r, sgn) == [type |-> "timeout", key |-> <<r>>, round |-> r, signer |-> sgn]

\* add has returned reached_threshold for the key of msg since the key came
\* into the pool
HasReached(msg) == \E k \in reached : k.type = msg.type /\ k.key = msg.key

\* the thresholds reported, after an add of msg that returned a: for every
\* key add has reported, whether it has done so once or more often
Reported(msg, a) ==
    IF a.reached
    THEN {k \in reached : k.type # msg.type \/ k.key # msg.key}
         \cup {[type |-> msg.type, key |-> msg.key, round |-> msg.round,
                times |-> IF HasReached(msg) THEN "more" ELSE "once"]}
    ELSE reached

\* the commit rule that commits the parent of the certified block
commitParent(e, b2) ==
    IF /\ Len(b2) >= 2
       /\ Round(Parent(b2)) = Round(b2) - 1
       /\ Round(Parent(Parent(b2))) = Round(Parent(b2)) - 1
       /\ Number(Parent(b2)) > Number(e.highestCommitBlock)
    THEN Parent(b2)
    ELSE e.highestCommitBlock

\* the commit rule that takes the grandparent whatever is committed
commitBelow(e, b2) ==
    IF /\ Len(b2) >= 2
       /\ Round(Parent(b2)) = Round(b2) - 1
       /\ Round(Parent(Parent(b2))) = Round(Parent(b2)) - 1
    THEN Parent(Parent(b2))
    ELSE e.highestCommitBlock

\* the commit rule for a certificate of b2: the grandparent b0 when the
\* rounds of b0, b1 and b2 are consecutive and b0 is above the highest
\* committed block, else the highest committed block as it is
commitBlocks(e, b2) ==
    IF /\ Len(b2) >= 2
       /\ Round(Parent(b2)) = Round(b2) - 1
       /\ Round(Parent(Parent(b2))) = Round(Parent(b2)) - 1
       /\ Number(Parent(Parent(b2))) > Number(e.highestCommitBlock)
    THEN Parent(Parent(b2))
    ELSE e.highestCommitBlock

\* process_qc that takes the round of the certificate as it comes
processQCAnyRound(e, qc) ==
    [e EXCEPT
        !.highestQuorumCert = IF Round(qc) > Round(@) THEN qc ELSE @,
        !.lockQuorumCert = IF qc # GenesisBlock /\ Round(qc) = Round(Parent(qc)) + 1
                           THEN Parent(qc) ELSE @,
        !.highestCommitBlock = IF qc # GenesisBlock /\ Round(qc) = Round(Parent(qc)) + 1
                               THEN commitBlocks(e, qc) ELSE @,
        !.currentRound = Round(qc) + 1]

\* process_qc(qc) for a valid certificate of block qc: the engine after it
processQC(e, qc) ==
    [e EXCEPT
        !.highestQuorumCert = IF Round(qc) > Round(@) THEN qc ELSE @,
        !.lockQuorumCert = IF qc # GenesisBlock /\ Round(qc) = Round(Parent(qc)) + 1
                           THEN Parent(qc) ELSE @,
        !.highestCommitBlock = IF qc # GenesisBlock /\ Round(qc) = Round(Parent(qc)) + 1
                               THEN commitBlocks(e, qc) ELSE @,
        !.currentRound = Max(@, Round(qc) + 1)]

\* the vote rule that does not look at highest_voted_round
mayVoteAgain(e, b) ==
    /\ Round(b) = e.currentRound
    /\ Extends(b, e.lockQuorumCert)

\* the vote rule: the block is of the current round, extends the locked
\* block and is above the highest round voted in
mayVote(e, b) ==
    /\ Round(b) = e.currentRound
    /\ Extends(b, e.lockQuorumCert)
    /\ Round(b) > e.highestVotedRound

\* a timeout certificate of round r arrives: the engine after it
processTC(e, r) ==
    IF r >= e.currentRound
    THEN [e EXCEPT !.currentRound = r + 1, !.highestTimeoutCert = r]
    ELSE e

\* the votes emitted, after one more in round r: for every round voted in,
\* whether the node has emitted one vote or more
Voted(r) ==
    {v \in sent : v.round # r}
    \cup {[round |-> r, votes |-> IF \E v \in sent : v.round = r THEN "many" ELSE "one"]}

\* the engine reaches e1: on a change of round both pools are cleaned
Become(e1, votes, timeouts, reports) ==
    /\ engineV2' = e1
    /\ votePool' = IF e1.currentRound # engineV2.currentRound
                   THEN poolHygiene(votes, e1.currentRound) ELSE votes
    /\ timeoutPool' = IF e1.currentRound # engineV2.currentRound
                      THEN poolHygiene(timeouts, e1.currentRound) ELSE timeouts
    /\ reached' = IF e1.currentRound # engineV2.currentRound
                  THEN poolHygiene(reports, e1.currentRound) ELSE reports

\* Proposal(block, qc) arrives, qc the certificate of the block's parent; an
\* invalid certificate ends the handler
ReceiveProposal ==
    /\ \E b \in V2Blocks \ {GenesisBlock}, valid \in BOOLEAN :
          \E e1 \in {IF valid THEN processQC(engineV2, Parent(b)) ELSE engineV2} :
              IF valid /\ mayVote(e1, b)
              THEN /\ Become([e1 EXCEPT !.highestVotedRound = Round(b)], votePool,
                             timeoutPool, reached)
                   /\ sent' = Voted(Round(b))
              ELSE /\ Become(e1, votePool, timeoutPool, reached)
                   /\ sent' = sent
    /\ UNCHANGED <<nFakes, besideV2>>

\* Vote(v) arrives for a block of a round the pool keeps; the vote of a
\* signer that is no masternode is dropped
ReceiveVote ==
    /\ \E b \in {b \in V2Blocks \ {GenesisBlock} : Round(b) \in VoteRounds /\ OneBlockVotedFor(b)},
          sgn \in VoteSigners :
          IF sgn \notin Range(V2Masternodes)
          THEN UNCHANGED <<engineV2, votePool, timeoutPool, reached>>
          ELSE \E a \in {poolAdd(votePool, Vote(b, sgn))} :
                  Become(IF a.reached THEN processQC(engineV2, b) ELSE engineV2,
                         a.pool, timeoutPool, Reported(Vote(b, sgn), a))
    /\ UNCHANGED <<sent, nFakes, besideV2>>

\* the handler of a timeout of round r by sgn
OnTimeout(r, sgn) ==
    \E a \in {poolAdd(timeoutPool, Timeout(r, sgn))} :
        Become(IF a.reached THEN processTC(engineV2, r) ELSE engineV2, votePool, a.pool,
               Reported(Timeout(r, sgn), a))

\* Timeout(t) of the current round arrives from another masternode
ReceiveTimeout ==
    /\ engineV2.currentRound <= MaxRound
    /\ \E sgn \in Range(V2Masternodes) \ {V2Masternodes[1]} :
          OnTimeout(engineV2.currentRound, sgn)
    /\ UNCHANGED <<sent, nFakes, besideV2>>

\* the round's timer fires: the node broadcasts its timeout of the current
\* round and adds it to its own pool
TimerFires ==
    /\ engineV2.currentRound <= MaxRound
    /\ OnTimeout(engineV2.currentRound, V2Masternodes[1])
    /\ UNCHANGED <<sent, nFakes, besideV2>>

\* SetNewRoundFaker(blockChainReader, newRound, resetTimer)
SetNewRoundFaker ==
    /\ nFakes < MaxFakes
    /\ nFakes' = nFakes + 1
    /\ \E newRound \in 0..MaxRound :
          engineV2' = [engineV2 EXCEPT !.currentRound = newRound]
    /\ UNCHANGED <<votePool, timeoutPool, reached, sent, besideV2>>

\* ProcessQCFaker(chain, qc)
ProcessQCFaker ==
    /\ nFakes < MaxFakes
    /\ nFakes' = nFakes + 1
    /\ \E qc \in V2Blocks : Become(processQC(engineV2, qc), votePool, timeoutPool, reached)
    /\ UNCHANGED <<sent, besideV2>>

\* SetPropertiesFaker(highestQC, highestTC)
SetPropertiesFaker ==
    /\ nFakes < MaxFakes
    /\ nFakes' = nFakes + 1
    /\ \E highestQC \in V2Blocks, highestTC \in 0..MaxRound :
          engineV2' = [engineV2 EXCEPT !.highestQuorumCert = highestQC,
                                       !.highestTimeoutCert = highestTC]
    /\ UNCHANGED <<votePool, timeoutPool, reached, sent, besideV2>>

InitV2 ==
    /\ EngineIdle
    /\ CountdownIdle
    /\ tIn = <<>>
    /\ tOut = <<>>
    /\ V1Idle
    /\ V2Idle

\* what the network and the timer give the engine
Input == ReceiveProposal \/ ReceiveVote \/ ReceiveTimeout \/ TimerFires

NextV2 ==
    \/ ReceiveProposal
    \/ ReceiveVote
    \/ ReceiveTimeout
    \/ TimerFires

SpecV2 == InitV2 /\ [][NextV2]_vars

\* the engine with the testing tools at hand
NextFaker ==
    \/ ReceiveProposal
    \/ ReceiveVote
    \/ ReceiveTimeout
    \/ TimerFires
    \/ SetNewRoundFaker
    \/ ProcessQCFaker
    \/ SetPropertiesFaker

SpecFaker == InitV2 /\ [][NextFaker]_vars

-----------------------------------------------------------------------------
(* The rounds and the commits of the v2 engine *)

\* C24: whatever proposals, votes, timeouts and timer firings the engine is
\* given, and in whatever order, no step lowers current_round
C24_RoundNeverDecreases ==
    [][engineV2'.currentRound >= engineV2.currentRound]_vars

\* the round has gone beyond the one after the highest certificate, by a
\* timeout certificate, and a certificate of a block was processed
C24_Witness ==
    /\ engineV2.highestQuorumCert # GenesisBlock
    /\ engineV2.highestTimeoutCert > Round(engineV2.highestQuorumCert)
    /\ engineV2.currentRound > Round(engineV2.highestQuorumCert) + 1

\* C25: whatever inputs the engine is given, no step lowers the number of
\* highest_commit_block
C25_CommitNeverDecreases ==
    [][Number(engineV2'.highestCommitBlock) >= Number(engineV2.highestCommitBlock)]_vars

\* a block above the genesis block is committed and the round has gone on
\* beyond the certificate that committed it
C25_Witness ==
    /\ Number(engineV2.highestCommitBlock) > 0
    /\ engineV2.currentRound > Round(engineV2.highestCommitBlock) + 2

\* b2, its parent b1 and its grandparent b0 are of consecutive rounds
ThreeChain(b2) ==
    /\ Len(b2) >= 2
    /\ Round(b2) = Round(Parent(b2)) + 1
    /\ Round(Parent(b2)) = Round(Parent(Parent(b2))) + 1

-----------------------------------------------------------------------------
(* The votes of the v2 engine *)

\* the step emits a vote for a block b the vote rule admits, and the engine
\* remembers the round of b as the highest it has voted in
VotesByTheRule ==
    \E b \in V2Blocks :
        /\ Round(b) = engineV2'.currentRound
        /\ Extends(b, engineV2'.lockQuorumCert)
        /\ Round(b) > engineV2.highestVotedRound
        /\ engineV2'.highestVotedRound = Round(b)
        /\ sent' = sent \cup {[round |-> Round(b), votes |-> "one"]}

\* C27: a step that emits a vote emits it for a block of the current round
\* that extends the locked block and whose round is above
\* highest_voted_round, and sets highest_voted_round to that round;
\* highest_voted_round changes in no other step; in every state the node
\* has emitted at most one vote in each round
C27_VoteRule ==
    /\ [](\A v \in sent : v.votes = "one" /\ v.round <= engineV2.highestVotedRound)
    /\ [][sent' # sent \/ engineV2'.highestVotedRound # engineV2.highestVotedRound
             => VotesByTheRule]_vars

\* the node has voted in two rounds, the later of them the current one
C27_Witness ==
    /\ Cardinality(sent) >= 2
    /\ engineV2.highestVotedRound = engineV2.currentRound
    /\ engineV2.lockQuorumCert # GenesisBlock

\* C28 as stated: in every state the engine can be brought to, by its inputs
\* or by the calls of its testing tools, highest_voted_round is at most
\* current_round
C28_VotedRoundBelowCurrent ==
    engineV2.highestVotedRound <= engineV2.currentRound

-----------------------------------------------------------------------------
(* The pools by themselves *)

\* the rounds the messages given to the pools are of: the current one and,
\* late, the one before
PoolRounds ==
    {r \in 1..MaxRound : r >= engineV2.currentRound - 1 /\ r <= engineV2.currentRound}

\* votePool.add(vote)
PoolAddVote ==
    /\ \E b \in {b \in V2Blocks \ {GenesisBlock} :
                    Round(b) \in PoolRounds /\ OneBlockVotedFor(b)},
          sgn \in Range(V2Masternodes) :
          \E a \in {poolAdd(votePool, Vote(b, sgn))} :
              /\ votePool' = a.pool
              /\ reached' = Reported(Vote(b, sgn), a)
    /\ UNCHANGED <<engineV2, timeoutPool, sent, nFakes, besideV2>>

\* timeoutPool.add(timeout)
PoolAddTimeout ==
    /\ \E r \in PoolRounds, sgn \in Range(V2Masternodes) :
          \E a \in {poolAdd(timeoutPool, Timeout(r, sgn))} :
              /\ timeoutPool' = a.pool
              /\ reached' = Reported(Timeout(r, sgn), a)
    /\ UNCHANGED <<engineV2, votePool, sent, nFakes, besideV2>>

\* the round changes: hygieneVotePool and hygieneTimeoutPool are called with
\* the new round
PoolHygiene ==
    /\ engineV2.currentRound <= MaxRound
    /\ Become([engineV2 EXCEPT !.currentRound = @ + 1], votePool, timeoutPool, reached)
    /\ UNCHANGED <<sent, nFakes, besideV2>>

NextPool ==
    \/ PoolAddVote
    \/ PoolAddTimeout
    \/ PoolHygiene

SpecPool == InitV2 /\ [][NextPool]_vars

\* the keys the two pools hold, each with the pool it is in
PoolKeys ==
    {[type |-> m.type, key |-> m.key, round |-> m.round] : m \in votePool \cup timeoutPool}

\* the messages a pool holds under key k
HeldUnder(k) == {m \in votePool \cup timeoutPool : m.type = k.type /\ m.key = k.key}

\* C29: for every key of a pool, from the add that creates the key until
\* hygiene prunes it, add has returned reached_threshold once if the key
\* holds the messages of at least threshold signers and never if it holds
\* fewer; a message a signer sends again is held once and reports nothing
C29_ThresholdOnce ==
    /\ \A k \in PoolKeys :
          /\ \A m1, m2 \in HeldUnder(k) : m1.signer = m2.signer => m1 = m2
          /\ Cardinality(HeldUnder(k)) >= CertThreshold
                 <=> [type |-> k.type, key |-> k.key, round |-> k.round, times |-> "once"]
                         \in reached
    /\ \A k \in reached :
          /\ k.times = "once"
          /\ [type |-> k.type, key |-> k.key, round |-> k.round] \in PoolKeys

\* a key of each pool holds a message of every masternode, one more than the
\* threshold, after the keys of an earlier round were pruned
C29_Witness ==
    /\ engineV2.currentRound > 1
    /\ \E k \in PoolKeys : k.type = "vote" /\ Cardinality(HeldUnder(k)) > CertThreshold
    /\ \E k \in PoolKeys : k.type = "timeout" /\ Cardinality(HeldUnder(k)) > CertThreshold

-----------------------------------------------------------------------------
(* The fields of the v2 engine and x.lock *)

\* what the testing tools are called with: newRound, qc, highestQC and
\* highestTC
V2Arguments ==
    {[newRound |-> 2, qc |-> <<1>>, highestQC |-> <<1>>, highestTC |-> 1],
     [newRound |-> 0, qc |-> <<1, 2>>, highestQC |-> <<1, 2>>, highestTC |-> 2]}

V2Writes == {"WriteRound", "ProcessQCCerts", "ProcessQCRound", "WriteHighestQC", "WriteHighestTC"}

V2Reads ==
    {"ReadRound", "ReadLockQC", "ReadHighestQC", "ReadHighestTC", "ReadVotedRound",
     "ReadCommitBlock"}

\* the field of the engine an instruction reads or writes
FieldOf(step) ==
    CASE step \in {"ReadRound", "WriteRound", "ProcessQCRound"} -> "currentRound"
      [] step = "ReadLockQC" -> "lockQuorumCert"
      [] step \in {"ReadHighestQC", "WriteHighestQC"} -> "highestQuorumCert"
      [] step \in {"ReadHighestTC", "WriteHighestTC"} -> "highestTimeoutCert"
      [] step = "ReadVotedRound" -> "highestVotedRound"
      [] step = "ReadCommitBlock" -> "highestCommitBlock"
      [] OTHER -> "none"

\* the engine after goroutine t has executed its write instruction
Written(t) ==
    CASE NextStep(t) = "WriteRound" ->
             [engineV2 EXCEPT !.currentRound = threads[t].arg.newRound]
      [] NextStep(t) = "ProcessQCCerts" ->
             [processQC(engineV2, threads[t].arg.qc) EXCEPT
                 !.currentRound = engineV2.currentRound]
      [] NextStep(t) = "ProcessQCRound" ->
             [engineV2 EXCEPT !.currentRound = Max(@, Round(threads[t].arg.qc) + 1)]
      [] NextStep(t) = "WriteHighestQC" ->
             [engineV2 EXCEPT !.highestQuorumCert = threads[t].arg.highestQC]
      [] NextStep(t) = "WriteHighestTC" ->
             [engineV2 EXCEPT !.highestTimeoutCert = threads[t].arg.highestTC]

\* what the read of goroutine t may give: the value of the field; when
\* another goroutine is about to write the field and the two are not ordered
\* by the lock (a data race) also the value being written
V2ReadValues(t) ==
    {engineV2[FieldOf(NextStep(t))]}
    \cup {Written(u)[FieldOf(NextStep(t))] :
             u \in {u \in Threads \ {t} :
                       /\ NextStep(u) \in V2Writes
                       /\ FieldOf(NextStep(u)) = FieldOf(NextStep(t))
                       /\ lock.writer # u}}

\* a goroutine calls one of the testing tools
V2Call ==
    /\ \E t \in Threads, op \in DOMAIN V2Programs, arg \in V2Arguments :
          /\ threads[t].op = "none"
          /\ threads' = [threads EXCEPT ![t] = [op |-> op, pc |-> 1, arg |-> arg,
                                                seen |-> <<>>]]
    /\ UNCHANGED <<lock, v2Vars, signerVars, turnVars, cdVars, engineVars, sealVars,
                   batchVars>>

\* x.currentRound = newRound; the assignments of processQC; x.highestQuorumCert
\* = highestQC; x.highestTimeoutCert = highestTC
V2Write ==
    /\ \E t \in Threads :
          /\ NextStep(t) \in V2Writes
          /\ engineV2' = Written(t)
          /\ threads' = Advance(t)
    /\ UNCHANGED <<lock, votePool, timeoutPool, sent, reached, nFakes, signerVars, turnVars,
                   cdVars, engineVars, sealVars, batchVars>>

\* a read of a field of the engine for the values returned
V2Read ==
    /\ \E t \in Threads :
          /\ NextStep(t) \in V2Reads
          /\ \E v \in V2ReadValues(t) :
                threads' = [threads EXCEPT ![t].pc = @ + 1, ![t].seen = Append(@, v)]
    /\ UNCHANGED <<lock, v2Vars, signerVars, turnVars, cdVars, engineVars, sealVars,
                   batchVars>>

NextV2Lock ==
    \/ V2Call
    \/ AcquireLock
    \/ ReleaseLock
    \/ AcquireRLock
    \/ ReleaseRLock
    \/ V2Write
    \/ V2Read
    \/ ThreadReturn

SpecV2Lock == InitV2 /\ [][NextV2Lock]_vars

\* goroutine u has made a write of its method and has another to make
Midway(u) ==
    /\ threads[u].op # "none"
    /\ \E i \in 1..(threads[u].pc - 1) : ProgramOf(threads[u].op)[i] \in V2Writes
    /\ NextStep(u) \in V2Writes

\* C30 as stated: every write of current_round, of the highest QC and of the
\* highest TC is made by a goroutine that holds x.lock for writing, and no
\* goroutine reads under the read lock while another is midway through its
\* writes
C30_TransitionsSerialized ==
    \A t \in Threads :
        /\ NextStep(t) \in V2Writes => lock.writer = t
        /\ NextStep(t) \in V2Reads /\ t \in lock.readers =>
              \A u \in Threads \ {t} : ~Midway(u)

-----------------------------------------------------------------------------
(* Snapshot resolution *)

\* one masternode that can vote B in, snapshots persisted at every odd
\* block, and an UpdateMasternodes that replaces the signers by A and C
SnapNet ==
    [Epoch |-> 2, Gap |-> 1, IsTestnet |-> FALSE, genesis |-> <<"A">>,
     creators |-> {"A"}, votes |-> {<<ZeroAddr, NonceDropVote>>, <<"B", NonceAuthVote>>},
     lists |-> {<<"A">>}, cosigners |-> {NoValidator, "A"},
     ms |-> {{"A", "C"}}, contract |-> <<"A">>, shift |-> 0,
     offDifficulty |-> {0}] @@ Plain

\* a header that no chain holds: the header of block n with another digest
Forged(n) == [chain[n + 1] EXCEPT !.mixDigest = OtherHash]

\* the headers a caller may ask the snapshot of: those of the chain and
\* forged ones
Requests == {chain[n + 1] : n \in 0..(Len(chain) - 1)} \cup {Forged(n) : n \in Blocks}

\* GetSnapshot(chain, header) for any header the caller holds
GetSnapshotOf ==
    /\ \E h \in Requests :
          \E r \in {snapshot(chain, env, recents, db, h.number, Hash(h), <<>>)} :
              /\ recents' = r.recents
              /\ db' = r.db
    /\ UNCHANGED <<env, chain, nUpdates, turnVars, cdVars, nodeVars>>

InitSnap == EngineInit({SnapNet})

NextSnap == Next \/ GetSnapshotOf

SpecSnap == InitSnap /\ [][NextSnap]_vars

\* the parents a batch may pass with block n: the headers up to n of the
\* chain, none to all of them, the oldest or the newest of them possibly
\* forged
ParentsOffered(n) ==
    UNION {{SubSeq(chain, n + 2 - k, n + 1)} \cup
           (IF k = 0 THEN {}
            ELSE {[SubSeq(chain, n + 2 - k, n + 1) EXCEPT ![1] = Forged(n + 1 - k)],
                  [SubSeq(chain, n + 2 - k, n + 1) EXCEPT ![k] = Forged(n)]}) :
           k \in 0..n}

\* the (number, hash, parents) snapshot() may be called with
Resolutions ==
    UNION {{<<n, Hash(h), p>> : h \in Requests, p \in ParentsOffered(n)} :
           n \in 0..(Len(chain) - 1)}

\* the walk from block m stops at m
StopsAt(m) ==
    \/ Hash(chain[m + 1]) \in DOMAIN recents
    \/ (m + env.Gap) % env.Epoch = 0 /\ Hash(chain[m + 1]) \in DOMAIN db
    \/ m = 0

\* the first block at or below n where the walk stops
StopOf(n) == CHOOSE m \in 0..n : StopsAt(m) /\ \A i \in (m + 1)..n : ~StopsAt(i)

\* the genesis block's snapshot
GenesisSnapshot == newSnapshot(0, Hash(chain[1]), chain[1].extraSigners)

\* neither the memory nor the disk holds the snapshot of the block m the
\* walk stops at: it is the genesis block's, built and persisted
FromGenesis(m) ==
    /\ Hash(chain[m + 1]) \notin DOMAIN recents
    /\ ~((m + env.Gap) % env.Epoch = 0 /\ Hash(chain[m + 1]) \in DOMAIN db)

\* the snapshot the walk finds at the block m it stops at: the one in
\* memory before the one on disk before the genesis block's
BaseAt(m) ==
    IF Hash(chain[m + 1]) \in DOMAIN recents THEN recents[Hash(chain[m + 1])]
    ELSE IF (m + env.Gap) % env.Epoch = 0 /\ Hash(chain[m + 1]) \in DOMAIN db
    THEN db[Hash(chain[m + 1])]
    ELSE GenesisSnapshot

\* the headers of blocks from..to of the chain on snap, oldest first
RECURSIVE Replay(_, _, _)
Replay(snap, from, to) ==
    IF from > to THEN snap
    ELSE Replay(applyHeader(env, snap, chain[from + 1]), from + 1, to)

\* C31: the snapshot of a block n of the chain, resolved with or without
\* parents, is the snapshot found at the first block at or below n that is
\* in memory, else on disk at a block with (number + Gap) mod Epoch = 0,
\* else the genesis block, with the headers above it applied oldest first;
\* it is added to the memory, and written to disk when (n + Gap) mod Epoch =
\* 0; and every resolution ends with a snapshot or with an error
C31_SnapshotResolution ==
    /\ \A n \in 0..(Len(chain) - 1) : \A k \in 0..n :
          LET r == batch(n, k)
              m == StopOf(n)
              snap == Replay(BaseAt(m), m + 1, n)
              seeded == IF FromGenesis(m) THEN Put(db, Hash(chain[1]), GenesisSnapshot)
                        ELSE db
          IN  /\ r.err = "nil"
              /\ r.snap = snap
              /\ r.recents = Put(recents, Hash(chain[n + 1]), snap)
              /\ r.db = IF (n + env.Gap) % env.Epoch = 0
                        THEN Put(seeded, Hash(chain[n + 1]), snap)
                        ELSE seeded
    /\ \A q \in Resolutions :
          LET r == snapshot(chain, env, recents, db, q[1], q[2], q[3])
          IN  (r.err = "nil") # (r.snap = <<>>)

\* a snapshot at a block with (number + Gap) mod Epoch = 0 is resolved from
\* a snapshot that is on disk and not in memory, two blocks below, and is
\* written to disk
C31_Witness ==
    \E n \in Blocks :
        /\ StopOf(n) = n - 2
        /\ StopOf(n) > 0
        /\ Hash(chain[n - 1]) \notin DOMAIN recents
        /\ (n + env.Gap) % env.Epoch = 0
        /\ warm(n).err = "nil"
        /\ warm(n).db # db
        /\ warm(n).snap.signers # BaseAt(n - 2).signers

\* C40: a resolution that fails with UnknownAncestor returns no snapshot
\* and leaves the snapshots in memory and on disk as they were
C40_UnknownAncestorLeavesCaches ==
    \A q \in Resolutions :
        LET r == snapshot(chain, env, recents, db, q[1], q[2], q[3])
        IN  r.err = "UnknownAncestor" =>
                /\ r.snap = <<>>
                /\ r.recents = recents
                /\ r.db = db

\* a resolution fails with UnknownAncestor at a forged parent, two headers
\* into the walk, with snapshots in memory
C40_Witness ==
    \E q \in Resolutions :
        /\ Len(q[3]) >= 2
        /\ q[2] = Hash(chain[q[1] + 1])
        /\ snapshot(chain, env, recents, db, q[1], q[2], q[3]).err = "UnknownAncestor"
        /\ snapshot(chain, env, recents, db, q[1], q[2], <<>>).err = "nil"
        /\ DOMAIN recents # {}

-----------------------------------------------------------------------------
(* Authorization of the creator *)

\* two masternodes and a third producer D that is none, headers with the
\* computed difficulty or one more, and an UpdateMasternodes that makes A
\* and D the signers of the snapshot
AuthNet ==
    [Epoch |-> 2, Gap |-> 1, IsTestnet |-> FALSE, genesis |-> <<"A", "B">>,
     creators |-> {"A", "B", "D"}, votes |-> {<<ZeroAddr, NonceDropVote>>},
     lists |-> {<<"A", "B">>}, cosigners |-> {NoValidator},
     ms |-> {{"A", "D"}}, contract |-> <<"A", "B">>, shift |-> 0,
     accounts |-> {"A", "B", "D"}] @@ Plain

InitAuth == EngineInit({AuthNet})

SpecAuth == InitAuth /\ [][Next]_vars

\* the creator of h is among the signers of the parent snapshot or in the
\* masternode list of the epoch of h
CreatorAuthorized(h) ==
    \/ h.creator \in ParentSnapshot(h).snap.signers
    \/ \E i \in 1..Len(GetMasternodes(chain, env, h)) :
          GetMasternodes(chain, env, h)[i] = h.creator

\* verifySeal on a header offered for the next block
SealVerdict(h, fullVerify) == verifySeal(chain, env, recents, db, h, <<>>, fullVerify).err

\* C32 as stated: verifySeal accepts a header only if its creator is a
\* signer of the parent snapshot or a masternode of the epoch, and returns
\* Unauthorized for every other header
C32_UnauthorizedOtherwise ==
    \A h \in Candidates, fullVerify \in BOOLEAN :
        /\ SealVerdict(h, fullVerify) = "nil" => CreatorAuthorized(h)
        /\ ~CreatorAuthorized(h) => SealVerdict(h, fullVerify) = "Unauthorized"

\* C32: verifySeal accepts a header only if its creator is a signer of the
\* parent snapshot or a masternode of the epoch; a header of another
\* creator is refused, with Unauthorized when it carries the difficulty
\* computed for its creator and with InvalidDifficulty when it does not
C32_CreatorAuthorized ==
    \A h \in Candidates, fullVerify \in BOOLEAN :
        /\ SealVerdict(h, fullVerify) = "nil" => CreatorAuthorized(h)
        /\ ~CreatorAuthorized(h) =>
              SealVerdict(h, fullVerify) =
                  IF h.difficulty = calcDifficultyAt(chain, env, recents, db, Tip,
                                                     h.creator).difficulty
                  THEN "Unauthorized" ELSE "InvalidDifficulty"

\* verifySeal accepts a header of B, a masternode that is no signer of the
\* parent snapshot, and one of D, a signer that is no masternode, and
\* refuses one of another creator
C32_Witness ==
    /\ \E h \in Candidates :
          /\ SealVerdict(h, TRUE) = "nil"
          /\ h.creator \notin ParentSnapshot(h).snap.signers
    /\ \E h \in Candidates :
          /\ SealVerdict(h, TRUE) = "nil"
          /\ h.creator \notin Range(GetMasternodes(chain, env, h))
    /\ Len(chain) > 1

-----------------------------------------------------------------------------
(* Seal against the signer's authorization and the recency rule *)

SealHeader == seal.block.header

\* the hash of the snapshot that snapshot(number - 1, header.ParentHash)
\* answers: for block 1 the genesis block's, whatever the parent hash
SealParentHash ==
    IF SealHeader.number = 1 THEN Hash(chain[1]) ELSE SealHeader.parentHash

\* the call got past the genesis and empty-block checks and resolved the
\* snapshot at the parent, which the memory holds from then on
SealResolved ==
    /\ SealHeader.number # 0
    /\ ~(env.Period = 0 /\ ~seal.block.txs /\ SealHeader.number % env.Epoch # 0)
    /\ SealParentHash \in DOMAIN recents

SealSnapshot == recents[SealParentHash]

SealMasternodes == GetMasternodes(chain, env, SealHeader)

\* the signer of the call is a signer of the parent snapshot or a masternode
\* of the block's epoch
SealAuthorized ==
    \/ seal.signer \in SealSnapshot.signers
    \/ \E i \in 1..Len(SealMasternodes) : SealMasternodes[i] = seal.signer

\* the signer of the call is recency-barred: the block is no epoch boundary
\* block, there is more than one masternode and the signer is in the recents
\* at seen > number - 2, or at any block when number < 2
SealBarred ==
    /\ Len(SealMasternodes) > 1
    /\ SealHeader.number % env.Epoch # 0
    /\ \E seen \in DOMAIN SealSnapshot.recents :
          /\ SealSnapshot.recents[seen] = seal.signer
          /\ (SealHeader.number < 2 \/ seen > SealHeader.number - 2)

\* the seal in the header's extra when Seal has returned
SealExtraLeft == sealExtra(seal.block, seal.signer, seal.signFn, seal.signed)

\* Seal invokes signFn only for an authorized signer that is not barred,
\* returns a block only when it has, and refuses an unauthorized signer
\* with Unauthorized once the parent snapshot is resolved
SealOnlyAuthorized ==
    /\ seal.signed => SealResolved /\ SealAuthorized /\ ~SealBarred
    /\ seal.out.block # NoBlock =>
          /\ seal.signed
          /\ seal.out.err = "nil"
          /\ seal.out.block.creator = seal.signer
    /\ SealResolved /\ ~SealAuthorized =>
          /\ seal.out = [block |-> NoBlock, err |-> "Unauthorized"]
          /\ ~seal.signed

\* the errors of Seal when GetValidator fails on the signed header
ValidatorErrors ==
    {"can't get block validator: " \o err :
        err \in {"couldn't find checkpoint header", "not checkpoint block", "GetM1M2"}}

SpecSealFair == SpecSeal /\ WF_vars(SealWait)

\* the call that began got as far as the recency rule and the signer is barred
BarredCall == SealResolved /\ SealAuthorized /\ SealBarred

\* C34: a Seal whose signer is recency-barred waits on the stop channel and
\* no other Seal does; while it waits it neither signs nor returns, it
\* leaves the wait only with the stop channel closed, returning no block
\* and no error without having invoked signFn, and once the channel is
\* closed it does return
C34_BarredWaitsForStop ==
    /\ [][seal.pc = "idle" /\ seal'.pc # "idle" => (seal'.pc = "wait" <=> BarredCall')]_vars
    /\ [][seal.pc = "wait" =>
              \/ seal'.pc = "wait" /\ seal' = seal
              \/ /\ stop
                 /\ seal'.pc = "returned"
                 /\ seal'.out = [block |-> NoBlock, err |-> "nil"]
                 /\ ~seal'.signed]_vars
    /\ (seal.pc = "wait" /\ stop) ~> (seal.pc = "returned" /\ seal.at = "wait")

\* a barred Seal that was called with the stop channel open has returned
\* from the wait
C34_Witness ==
    /\ seal.pc = "returned"
    /\ seal.at = "wait"
    /\ ~seal.stopAtCall
    /\ BarredCall
    /\ SealHeader.number >= 2

\* the recents maps of a snapshot at the parent of block number: the
\* creators of the last two blocks, or of some of them
RecentsAt(number) ==
    UNION {[S -> env.creators] :
               S \in SUBSET {n \in {number - 2, number - 1} : n >= 0}}

\* C35: a block on a parent of the chain that Seal signed is accepted by
\* verifySeal, with the difficulty of its signer, from the same parent
\* snapshot and masternode list; and for every block number from 1 on,
\* every masternode list, signer and recents map, a signer that the recency
\* rule of Seal lets through is let through by the recency rule of
\* verifySeal
C35_SealedPassesVerifySeal ==
    /\ (/\ seal.pc = "returned"
        /\ seal.signed
        /\ HasHeader(chain, SealHeader.parentHash, SealHeader.number - 1)) =>
          verifySeal(chain, env, recents, db,
                     [SealHeader EXCEPT
                         !.creator = seal.signer,
                         !.difficulty = calcDifficultyAt(chain, env, recents, db,
                                                         chain[SealHeader.number],
                                                         seal.signer).difficulty],
                     <<>>, FALSE).err = "nil"
    /\ \A number \in 1..(MaxNumber + 1), masternodes \in {<<"A">>, <<"A", "B">>},
          sgn \in env.creators :
          \A rec \in RecentsAt(number) :
              ~SealMustWait(env, [recents |-> rec], masternodes, sgn, number)
                  => ~RecentlySigned(env, [recents |-> rec], masternodes, sgn, number)

\* Seal signed a block that is no epoch boundary block for a signer that is
\* in the recents map, two blocks below
C35_Witness ==
    /\ seal.pc = "returned"
    /\ seal.signed
    /\ seal.out.block # NoBlock
    /\ Len(SealMasternodes) > 1
    /\ SealHeader.number % env.Epoch # 0
    /\ \E seen \in DOMAIN SealSnapshot.recents :
          SealSnapshot.recents[seen] = seal.signer /\ seen = SealHeader.number - 2

-----------------------------------------------------------------------------
(* Full verification and the verified headers *)

\* the checks that verifyHeader and verifySeal make only under fullVerify,
\* by a clock at now: above the first epoch a validator signature, which is
\* the assigned validator's, and a time that is not ahead of the clock
FullChecks(h, now) ==
    /\ h.number > env.Epoch => h.validator # NoValidator
    /\ h.time <= now
    /\ h.number > env.Epoch => doubleValidation(chain \o verifier.headers, env, h) = "nil"

\* C36: every header of the slice that VerifyHeaders found valid with full
\* verification requested passes the checks of full verification, whatever
\* calls were made before
C36_FullVerifyChecked ==
    verifier.pc # "idle" /\ ~env.IsTestnet =>
        \A i \in 1..Len(results) :
            verifier.fullVerifies[i] /\ results[i] = "nil" =>
                FullChecks(verifier.headers[i], verifier.headers[i].time)

-----------------------------------------------------------------------------
(* Prepare *)

\* the deployments with and without penalty hooks, a HookValidator
\* installed, and the proposals the node pushes: D in and A out
PrepareNets ==
    {[HookValidator |-> [installed |-> TRUE, err |-> "nil"],
      proposals |-> {<<"D", TRUE>>, <<"A", FALSE>>}] @@ net :
        net \in {hooked \in HookNets : /\ ~hooked.HookVerifyMNs.installed
                                       /\ hooked.HookGetSignersFromContract.err = "nil"
                                       /\ hooked.IgnoreSignerCheckBlock # 2}
                 \cup {EveryNet}}

\* c.proposals held against the snapshot, and the vote rand.Intn picks: the
\* coinbase and the nonce Prepare writes on a block that is no checkpoint
prepareVote(snap, proposals, rnd) ==
    LET addresses == SelectSeq(AddrOrder, LAMBDA a :
                         \E p \in proposals : p[1] = a /\ validVote(snap, a, p[2]))
    IN  IF Len(addresses) = 0 THEN <<ZeroAddr, NonceDropVote>>
        ELSE <<addresses[(rnd % Len(addresses)) + 1],
               IF <<addresses[(rnd % Len(addresses)) + 1], TRUE>> \in proposals
               THEN NonceAuthVote ELSE NonceDropVote>>

\* a timestamp that is the clock's
prepareTimeNow(e, parent, now) == now

\* the timestamp Prepare writes: the parent's plus the period, or the clock's
\* when that is later
prepareTime(e, parent, now) == Max(parent.time + e.Period, now)

\* the signers Prepare would write without looking at the checkpoints before
prepareSignersNoHistory(ch, e, number, signers, penMasternodes) ==
    RemoveItemFromArray(signers, penMasternodes)

\* the signers Prepare writes into the extra of a checkpoint: those of the
\* snapshot without the hook's penalties and those of the LimitPenaltyEpoch
\* checkpoints before
prepareSigners(ch, e, number, signers, penMasternodes) ==
    removePenalties(ch, e, RemoveItemFromArray(signers, penMasternodes), number,
                    LimitPenaltyEpoch)

\* Prepare(chain, header) by a node whose signer is sgn, with the clock at
\* now and rnd from rand.Intn: the error, the header as Prepare leaves it
\* and the snapshot caches
Prepare(ch, e, rec, d, header, sgn, rnd, now) ==
    Let(snapshot(ch, e, rec, d, header.number - 1, header.parentHash, <<>>), LAMBDA s :
    IF s.err # "nil"
    THEN [err |-> s.err, recents |-> s.recents, db |-> s.db,
          header |-> [header EXCEPT !.coinbase = ZeroAddr, !.nonce = NonceDropVote]]
    ELSE
    Let(IF header.number % e.Epoch # 0 THEN prepareVote(s.snap, e.proposals, rnd)
        ELSE <<ZeroAddr, NonceDropVote>>, LAMBDA vote :
    IF ~HasHeader(ch, header.parentHash, header.number - 1)
    THEN [err |-> "UnknownAncestor", recents |-> s.recents, db |-> s.db,
          header |-> [header EXCEPT !.coinbase = vote[1], !.nonce = vote[2]]]
    ELSE
    Let(calcDifficultyAt(ch, e, s.recents, s.db, ch[header.number], sgn), LAMBDA c :
    LET checkpoint == header.number >= e.Epoch /\ header.number % e.Epoch = 0
        voted == [header EXCEPT !.coinbase = vote[1], !.nonce = vote[2],
                                !.difficulty = c.difficulty, !.extraLen = ExtraVanity]
        hook == IF checkpoint /\ e.penaltyHooks
                THEN penaltyHook(e, header, GetSigners(s.snap))
                ELSE [err |-> "nil", penalties |-> {}]
        failed(err) == [err |-> err, recents |-> c.recents, db |-> c.db, header |-> voted]
    IN  IF hook.err # "nil" THEN failed(hook.err)
        ELSE IF checkpoint /\ removePenaltiesPanics(ch, e, header.number) THEN failed(Panic)
        ELSE IF checkpoint /\ e.HookValidator.installed /\ e.HookValidator.err # "nil"
        THEN failed(e.HookValidator.err)
        ELSE
        Let(IF checkpoint
            THEN prepareSigners(ch, e, header.number, GetSigners(s.snap), hook.penalties)
            ELSE <<>>, LAMBDA masternodes :
        [err |-> "nil", recents |-> c.recents, db |-> c.db,
         header |-> [voted EXCEPT
             !.penalties = IF hook.penalties # {} THEN hook.penalties ELSE @,
             !.extraSigners = masternodes,
             !.validators = IF checkpoint /\ e.HookValidator.installed
                            THEN [i \in 1..Len(masternodes) |-> i - 1 + e.shift] ELSE @,
             !.extraLen = ExtraLen(masternodes, 0),
             !.mixDigest = ZeroHash,
             !.time = prepareTime(e, ch[header.number], now)]]))))

\* the headers the miner hands to Prepare for the next block: on the tip or
\* on an unknown parent, with no extra or with more than the vanity, the
\* other fields empty or left over from another block
FreshHeaders ==
    {[number |-> Len(chain), parentHash |-> ParentHashOf(parent), creator |-> ZeroAddr,
      coinbase |-> left[1], nonce |-> left[2], difficulty |-> 0, extraSigners |-> <<>>,
      validator |-> NoValidator, validators |-> <<>>, penalties |-> {}, time |-> 0,
      extraLen |-> left[4], mixDigest |-> left[3], uncleHash |-> UncleHash] :
        parent \in {"tip", "unknown"},
        left \in {<<ZeroAddr, NonceDropVote, ZeroHash, 0>>,
                  <<"B", "0x1234", OtherHash, ExtraVanity + 8>>}}

\* time.Now() when Prepare runs: before, at or after the earliest time of
\* the next block
PrepareClocks == {Tip.time + env.Period + ahead : ahead \in {-1, 0, 1}}

\* the miner prepares a header for the next block
PrepareHeader ==
    /\ Len(chain) <= MaxNumber
    /\ \E header \in FreshHeaders, sgn \in {"A"}, rnd \in {0, 1}, now \in PrepareClocks :
          \E r \in {Prepare(chain, env, recents, db, header, sgn, rnd, now)} :
              /\ recents' = r.recents
              /\ db' = r.db
    /\ UNCHANGED <<env, chain, nUpdates, turnVars, cdVars, nodeVars>>

InitPrepare == EngineInit(PrepareNets)

NextPrepare == Next \/ PrepareHeader

SpecPrepare == InitPrepare /\ [][NextPrepare]_vars

\* every Prepare that may be called in this state, with what it was given
Prepared ==
    {[in |-> header, now |-> now,
      out |-> Prepare(chain, env, recents, db, header, sgn, rnd, now)] :
        header \in FreshHeaders, sgn \in {"A"}, rnd \in {0, 1}, now \in PrepareClocks}

\* C37: the header a successful Prepare leaves passes, once it has the
\* uncle hash, the checks verifyHeader makes on the header alone: on a
\* checkpoint coinbase is zero, nonce is the drop value and extra is the
\* vanity, the addresses of the signers and the seal; on other blocks extra
\* is the vanity and the seal and nonce is the authorize or the drop value;
\* the mix digest is zero; and time is the later of parent.time + Period and
\* the clock, so not before parent.time + Period
C37_PreparedIsStructural ==
    \A p \in Prepared :
        p.out.err = "nil" =>
            LET h == p.out.header
                checkpoint == h.number % env.Epoch = 0
            IN  /\ checkpoint => /\ h.coinbase = ZeroAddr
                                 /\ h.nonce = NonceDropVote
                                 /\ h.extraLen = ExtraVanity
                                        + AddressLength * Len(h.extraSigners) + ExtraSeal
                /\ ~checkpoint => /\ h.extraLen = ExtraVanity + ExtraSeal
                                  /\ h.extraSigners = <<>>
                                  /\ h.nonce \in {NonceAuthVote, NonceDropVote}
                /\ h.mixDigest = ZeroHash
                /\ h.time >= Tip.time + env.Period
                /\ h.time >= p.now
                /\ h.time \in {Tip.time + env.Period, p.now}
                /\ verifyStandalone(env, h, FALSE, p.now) = "nil"
                /\ verifyCascadingFields(chain, env, recents, db, h, <<>>, FALSE).err
                       # "InvalidTimestamp"

\* Prepare succeeds on a checkpoint header that came with more than the
\* vanity and with fields left over, by a clock that is ahead, and writes
\* signers; and on a block that is no checkpoint it casts a vote
C37_Witness ==
    /\ \E p \in Prepared :
          /\ p.out.err = "nil"
          /\ p.in.extraLen > ExtraVanity
          /\ p.in.mixDigest # ZeroHash
          /\ p.out.header.extraSigners # <<>>
          /\ p.out.header.time = p.now
          /\ p.now > Tip.time + env.Period
    /\ Len(chain) > 1

-----------------------------------------------------------------------------
(* CheckMNTurn against YourTurn *)

\* the list CheckMNTurn looks the signer up in
CheckMNTurnList(isTestnet) == IF isTestnet THEN TestnetMasternodes ELSE tIn.masternodes

\* C39: CheckMNTurn(parent, signer) is true only for a signer that is a member
\* of the masternode list, and for every parent and every member signer it
\* gives the answer of YourTurn(parent, signer); stated off the testnet, where
\* both functions read the list of the parent's epoch.
C39_CheckMNTurnIsYourTurn ==
    TurnDone =>
        \A s \in Addr :
            /\ tOut[s].mn[FALSE] => s \in Range(tIn.masternodes)
            /\ s \in Range(tIn.masternodes) => (tOut[s].mn[FALSE] <=> tOut[s].yt.turn)

\* C39, first half alone: off the testnet CheckMNTurn is true only for members
C39_OnlyMembers ==
    TurnDone => \A s \in Addr : tOut[s].mn[FALSE] => s \in Range(tIn.masternodes)

\* C39, second half alone: off the testnet CheckMNTurn and YourTurn agree on
\* every member
C39_AgreeOnMembers ==
    TurnDone =>
        \A s \in Range(tIn.masternodes) : tOut[s].mn[FALSE] <=> tOut[s].yt.turn

\* what CheckMNTurn computes: with the parent's creator at a slot of the list
\* it names that creator; with no such slot (block 1, or a creator outside
\* the list) it names every address outside the list, or the only member of
\* a list of one (-1 % 1 is 0)
C39_CheckMNTurnComputes ==
    TurnDone =>
        \A t \in BOOLEAN, s \in Addr :
            LET list == CheckMNTurnList(t)
                slot == tIn.parentNumber # 0 /\ tIn.pre \in Range(list)
            IN  tOut[s].mn[t] <=>
                    /\ tIn.snapOk
                    /\ Len(list) > 0
                    /\ ~(tIn.parentNumber # 0 /\ tIn.pre = "err")
                    /\ IF slot THEN s = tIn.pre
                       ELSE IF Len(list) = 1 THEN s = list[1]
                       ELSE s \notin Range(list)

\* block 1 over <<A, B>>: CheckMNTurn is true for the non-members C and D and
\* false for A, whose turn it is
C39_Block1 ==
    /\ TurnOk
    /\ tIn.masternodes = <<"A", "B">>
    /\ tIn.parentNumber = 0
    /\ tOut["A"].yt.turn /\ ~tOut["A"].mn[FALSE]
    /\ tOut["C"].mn[FALSE] /\ tOut["D"].mn[FALSE]

=============================================================================
